---- MODULE Spec2Model ----
(***************************************************************************)
(* Model of the SMEfin backend: OTP login, the three registration          *)
(* sub-records with their check-then-write upsert, the derived account     *)
(* status and the financing request ledger.                                *)
(*                                                                         *)
(* Every HTTP request is a worker that executes its handler one database   *)
(* statement at a time; the code between two statements is local to the    *)
(* request and is folded into the step of the statement before it.         *)
(* Text values that the code inspects character by character (emails,      *)
(* phone numbers, OTP codes, amounts) are sequences of one-character       *)
(* strings; text values that are only tested for emptiness are strings.    *)
(***************************************************************************)
EXTENDS Integers, Sequences, FiniteSets, TLC

(***************************************************************************)
(* Bounds of the model.                                                    *)
(***************************************************************************)
NumWorkers == 2
MaxRequests == 2
MaxAuthRequests == 3
MaxFaults == 1
MaxOTPs == 2
MaxTime == 15
MaxFinancing == 3
TickMinutes == 5

(***************************************************************************)
(* Program constants.                                                      *)
(***************************************************************************)
OTPExpiryMinutes == 10
OTPLength == 6
PhoneMinDigits == 10
PhoneMaxDigits == 15
TLDMinLetters == 2
JWTExpiryHours == 24
MaxFileSizeMB == 10
JWTSecret == "default-secret-key-change-in-production"

Workers == 1..NumWorkers

Kinds == <<"personal", "business", "trade">>
KindSet == {Kinds[i] : i \in 1..3}

(***************************************************************************)
(* Character classes of the validation patterns.                           *)
(***************************************************************************)
Digits == {"0", "1", "2", "3", "4", "5", "6", "7", "8", "9"}
Letters ==
  {"a", "b", "c", "d", "e", "f", "g", "h", "i", "j", "k", "l", "m",
   "n", "o", "p", "q", "r", "s", "t", "u", "v", "w", "x", "y", "z",
   "A", "B", "C", "D", "E", "F", "G", "H", "I", "J", "K", "L", "M",
   "N", "O", "P", "Q", "R", "S", "T", "U", "V", "W", "X", "Y", "Z"}
EmailLocalChars == Letters \cup Digits \cup {".", "_", "%", "+", "-"}
EmailDomainChars == Letters \cup Digits \cup {".", "-"}

AllIn(s, lo, hi, class) == \A k \in lo..hi : s[k] \in class

\* ^[a-zA-Z0-9._%+\-]+@[a-zA-Z0-9.\-]+\.[a-zA-Z]{2,}$
ValidateEmail(email) ==
  \E i \in 1..Len(email) : \E j \in (i + 1)..Len(email) :
     /\ email[i] = "@"
     /\ email[j] = "."
     /\ i > 1
     /\ AllIn(email, 1, i - 1, EmailLocalChars)
     /\ j > i + 1
     /\ AllIn(email, i + 1, j - 1, EmailDomainChars)
     /\ Len(email) - j >= TLDMinLetters
     /\ AllIn(email, j + 1, Len(email), Letters)

ReplaceAll(s, ch) == SelectSeq(s, LAMBDA c : c # ch)

\* strips " ", "-", "(", ")" and matches ^\d{10,15}$
ValidatePhone(phone) ==
  LET stripped == ReplaceAll(ReplaceAll(ReplaceAll(ReplaceAll(phone, " "), "-"), "("), ")")
  IN  /\ Len(stripped) >= PhoneMinDigits
      /\ Len(stripped) <= PhoneMaxDigits
      /\ AllIn(stripped, 1, Len(stripped), Digits)

\* ^\d{6}$
ValidateOTP(otp) ==
  /\ Len(otp) = OTPLength
  /\ AllIn(otp, 1, Len(otp), Digits)

(***************************************************************************)
(* Sample texts from which the requests are drawn.                         *)
(***************************************************************************)
Empty == <<>>
EmailA == <<"a", "@", "b", ".", "c", "o">>
EmailB == <<"c", ".", "d", "@", "e", "-", "f", ".", "o", "r", "g">>
EmailNoTLD == <<"a", "@", "b">>
EmailShortTLD == <<"a", "@", "b", ".", "c">>
PhoneA == <<"0", "1", "7", "1", "2", "3", "4", "5", "6", "7", "8">>
PhoneB == <<"(", "0", "1", "7", ")", " ", "1", "2", "3", "-", "4", "5", "6", "7">>
PhoneShort == <<"1", "2", "3", "-", "4", "5", "6">>
PhoneAlpha == <<"0", "1", "7", "1", "2", "3", "4", "5", "6", "x">>
DefaultOTP == <<"1", "2", "3", "4", "5", "6">>
OtherOTP == <<"6", "5", "4", "3", "2", "1">>
ShortOTP == <<"1", "2", "3">>

PersonalA == [full_name |-> "Alice", email |-> EmailA, phone_number |-> PhoneA]
PersonalB == [full_name |-> "Bob", email |-> EmailB, phone_number |-> PhoneB]
BusinessA == [business_name |-> "Acme", trade_license_number |-> "TL-1"]
BusinessB == [business_name |-> "Bolt", trade_license_number |-> "TL-2"]
TradeA == [filename |-> "a.pdf", file_url |-> "https://files/a.pdf"]
TradeB == [filename |-> "b.png", file_url |-> "https://files/b.png"]

PersonalInvalid ==
  { [PersonalB EXCEPT !.full_name = ""],
    [PersonalB EXCEPT !.email = Empty],
    [PersonalB EXCEPT !.email = EmailNoTLD],
    [PersonalB EXCEPT !.email = EmailShortTLD],
    [PersonalB EXCEPT !.phone_number = Empty],
    [PersonalB EXCEPT !.phone_number = PhoneShort],
    [PersonalB EXCEPT !.phone_number = PhoneAlpha],
    [full_name |-> "", email |-> EmailNoTLD, phone_number |-> Empty],
    [full_name |-> "Bob", email |-> Empty, phone_number |-> PhoneShort] }
BusinessInvalid ==
  { [BusinessB EXCEPT !.business_name = ""],
    [BusinessB EXCEPT !.trade_license_number = ""],
    [business_name |-> "", trade_license_number |-> ""] }
TradeInvalid ==
  { [TradeB EXCEPT !.filename = ""],
    [TradeB EXCEPT !.file_url = ""],
    [filename |-> "", file_url |-> ""] }

ValidData == [personal |-> {PersonalA, PersonalB},
              business |-> {BusinessA, BusinessB},
              trade |-> {TradeA, TradeB}]
InvalidData == [personal |-> PersonalInvalid,
                business |-> BusinessInvalid,
                trade |-> TradeInvalid]

FullA == [personal |-> PersonalA, business |-> BusinessA, trade |-> TradeA]
FullB == [personal |-> PersonalB, business |-> BusinessB, trade |-> TradeB]
FullInvalid ==
  { [FullB EXCEPT !.personal = p] : p \in PersonalInvalid }
  \cup { [FullB EXCEPT !.business = b] : b \in BusinessInvalid }
  \cup { [FullB EXCEPT !.trade = t] : t \in TradeInvalid }
  \cup { [personal |-> [PersonalB EXCEPT !.phone_number = PhoneShort],
          business |-> [BusinessB EXCEPT !.business_name = ""],
          trade |-> [TradeB EXCEPT !.file_url = ""]],
         [personal |-> PersonalA,
          business |-> [BusinessB EXCEPT !.trade_license_number = ""],
          trade |-> [filename |-> "", file_url |-> ""]] }

(***************************************************************************)
(* Request validation of the handlers: the message of the first unmet      *)
(* constraint, or "" when the payload passes.                              *)
(***************************************************************************)
PersonalDetailsError(p) ==
  IF p.full_name = "" THEN "Full name is required"
  ELSE IF Len(p.email) = 0 THEN "Email is required"
  ELSE IF ~ValidateEmail(p.email) THEN "Invalid email format"
  ELSE IF Len(p.phone_number) = 0 THEN "Phone number is required"
  ELSE IF ~ValidatePhone(p.phone_number) THEN "Invalid phone number format"
  ELSE ""

BusinessDetailsError(b) ==
  IF b.business_name = "" THEN "Business name is required"
  ELSE IF b.trade_license_number = "" THEN "Trade license number is required"
  ELSE ""

TradeLicenseError(t, urlMessage) ==
  IF t.filename = "" THEN "Filename is required"
  ELSE IF t.file_url = "" THEN urlMessage
  ELSE ""

UpsertError(kind, d) ==
  CASE kind = "personal" -> PersonalDetailsError(d)
    [] kind = "business" -> BusinessDetailsError(d)
    [] kind = "trade" -> TradeLicenseError(d, "File URL is required")

\* a validation that forgets the trade license
FullRegistrationError_SkipsTrade(f) ==
  IF PersonalDetailsError(f.personal) # "" THEN PersonalDetailsError(f.personal)
  ELSE BusinessDetailsError(f.business)

\* lines 260-300 of FullRegistration
FullRegistrationError(f) ==
  IF PersonalDetailsError(f.personal) # "" THEN PersonalDetailsError(f.personal)
  ELSE IF BusinessDetailsError(f.business) # "" THEN BusinessDetailsError(f.business)
  ELSE TradeLicenseError(f.trade, "File URL is required (or upload a file)")

(***************************************************************************)
(* State.                                                                  *)
(*   users, otps, sub, financing  the tables of the store; a row's         *)
(*       position in its table is its id, and rows are in created_at       *)
(*       order                                                             *)
(*   tokens     the session credentials handed to clients                  *)
(*   now        the wall clock, in minutes                                 *)
(*   pc, req, loc, resp   per worker: position in its handler, request,    *)
(*       local variables and response                                      *)
(*   pre        per worker: the tables as they were when its request       *)
(*       arrived (history, read by no action)                              *)
(*   started, faults   number of requests started and of storage errors    *)
(***************************************************************************)
VARIABLES users, otps, sub, financing, tokens, now, pc, req, loc, resp, pre,
          started, faults

tables == <<users, otps, sub, financing>>
vars == <<users, otps, sub, financing, tokens, now, pc, req, loc, resp, pre,
          started, faults>>

NoRequest == [op |-> "none"]
NoResponse == [code |-> 0, message |-> "", data |-> [none |-> TRUE]]
LocInit == [kind |-> 1, existing |-> FALSE, otp_id |-> 0, user_id |-> 0,
            email |-> Empty, found |-> FALSE, file_url |-> "",
            has |-> [k \in KindSet |-> FALSE], summary |-> <<>>]
Snapshot == [otps |-> otps, sub |-> sub, financing |-> financing]

InitWorkers ==
  /\ pc = [r \in Workers |-> "idle"]
  /\ req = [r \in Workers |-> NoRequest]
  /\ loc = [r \in Workers |-> LocInit]
  /\ resp = [r \in Workers |-> NoResponse]
  /\ started = 0
  /\ faults = 0
  /\ now = 0

\* The store right after the migrations have run: every table is empty.
InitEmpty ==
  /\ users = <<>>
  /\ otps = <<>>
  /\ sub = [k \in KindSet |-> <<>>]
  /\ financing = <<>>
  /\ tokens = {}
  /\ pre = [r \in Workers |-> Snapshot]
  /\ InitWorkers

\* One account has logged in (send-otp, then verify-otp for EmailA) and holds
\* its credential; nothing is registered yet.
InitLoggedIn ==
  /\ users = <<[id |-> 1, email |-> EmailA]>>
  /\ otps = <<[email |-> EmailA, otp |-> DefaultOTP, created_at |-> 0,
               expires_at |-> OTPExpiryMinutes, verified |-> TRUE]>>
  /\ sub = [k \in KindSet |-> <<>>]
  /\ financing = <<>>
  /\ tokens = {[user_id |-> 1, email |-> EmailA]}
  /\ pre = [r \in Workers |-> Snapshot]
  /\ InitWorkers

\* The logged-in account has saved some of its sub-records, one request
\* after the other.
InitRegistering ==
  /\ users = <<[id |-> 1, email |-> EmailA]>>
  /\ otps = <<[email |-> EmailA, otp |-> DefaultOTP, created_at |-> 0,
               expires_at |-> OTPExpiryMinutes, verified |-> TRUE]>>
  /\ \E saved \in SUBSET KindSet :
       sub = [k \in KindSet |-> IF k \in saved THEN <<[user_id |-> 1, data |-> FullA[k]]>>
                                ELSE <<>>]
  /\ financing = <<>>
  /\ tokens = {[user_id |-> 1, email |-> EmailA]}
  /\ pre = [r \in Workers |-> Snapshot]
  /\ InitWorkers

\* Two accounts have logged in and completed their registration, one request
\* after the other; neither has asked for financing yet.
InitTwoAccounts ==
  /\ users = <<[id |-> 1, email |-> EmailA], [id |-> 2, email |-> EmailB]>>
  /\ otps = <<[email |-> EmailA, otp |-> DefaultOTP, created_at |-> 0,
               expires_at |-> OTPExpiryMinutes, verified |-> TRUE],
              [email |-> EmailB, otp |-> DefaultOTP, created_at |-> 0,
               expires_at |-> OTPExpiryMinutes, verified |-> TRUE]>>
  /\ sub = [k \in KindSet |-> <<[user_id |-> 1, data |-> FullA[k]],
                                 [user_id |-> 2, data |-> FullB[k]]>>]
  /\ financing = <<>>
  /\ tokens = {[user_id |-> 1, email |-> EmailA], [user_id |-> 2, email |-> EmailB]}
  /\ pre = [r \in Workers |-> Snapshot]
  /\ InitWorkers

\* Two accounts have logged in; the first has saved some of its sub-records,
\* the second none or all of them, one request after the other.
InitTwoRegistering ==
  /\ users = <<[id |-> 1, email |-> EmailA], [id |-> 2, email |-> EmailB]>>
  /\ otps = <<[email |-> EmailA, otp |-> DefaultOTP, created_at |-> 0,
               expires_at |-> OTPExpiryMinutes, verified |-> TRUE],
              [email |-> EmailB, otp |-> DefaultOTP, created_at |-> 0,
               expires_at |-> OTPExpiryMinutes, verified |-> TRUE]>>
  /\ \E savedA \in SUBSET KindSet : \E savedB \in {{}, KindSet} :
       sub = [k \in KindSet |->
                (IF k \in savedA THEN <<[user_id |-> 1, data |-> FullA[k]]>> ELSE <<>>)
                \o (IF k \in savedB THEN <<[user_id |-> 2, data |-> FullB[k]]>> ELSE <<>>)]
  /\ financing = <<>>
  /\ tokens = {[user_id |-> 1, email |-> EmailA], [user_id |-> 2, email |-> EmailB]}
  /\ pre = [r \in Workers |-> Snapshot]
  /\ InitWorkers

(***************************************************************************)
(* Queries.  A query without ORDER BY that matches several rows may        *)
(* return any of them, so a lookup is the set of its possible results.     *)
(***************************************************************************)
UsersByEmail(email) == {i \in DOMAIN users : users[i].email = email}
UsersByID(id) == {i \in DOMAIN users : users[i].id = id}
SubRows(kind, userID) == {i \in DOMAIN sub[kind] : sub[kind][i].user_id = userID}

\* SELECT ... FROM <kind table> WHERE user_id = $1
GetSubRecord(kind, userID) == {sub[kind][i].data : i \in SubRows(kind, userID)}
\* an existence flag remembered from login, when nothing was registered
HasSubRecord_AsAtLogin(kind, userID) == FALSE
HasSubRecord(kind, userID) == SubRows(kind, userID) # {}

\* the projection with the trade license left out of the conjunction
AccountStatus_WithoutTradeLicense(userID, email, hasPersonal, hasBusiness, hasTrade) ==
  LET complete == hasPersonal /\ hasBusiness
  IN  [user_id |-> userID, email |-> email,
       status |-> IF complete THEN "old" ELSE "new",
       has_personal_details |-> hasPersonal,
       has_business_details |-> hasBusiness,
       has_trade_license |-> hasTrade,
       is_complete |-> complete]

\* a projection whose status never leaves "new"
AccountStatus_AlwaysNew(userID, email, hasPersonal, hasBusiness, hasTrade) ==
  [user_id |-> userID, email |-> email, status |-> "new",
   has_personal_details |-> hasPersonal,
   has_business_details |-> hasBusiness,
   has_trade_license |-> hasTrade,
   is_complete |-> hasPersonal /\ hasBusiness /\ hasTrade]

\* lines 281-314 of GetAccountStatus: the projection built from the three
\* existence checks
AccountStatus(userID, email, hasPersonal, hasBusiness, hasTrade) ==
  LET complete == hasPersonal /\ hasBusiness /\ hasTrade
  IN  [user_id |-> userID, email |-> email,
       status |-> IF complete THEN "old" ELSE "new",
       has_personal_details |-> hasPersonal,
       has_business_details |-> hasBusiness,
       has_trade_license |-> hasTrade,
       is_complete |-> complete]

(***************************************************************************)
(* strconv.Atoi and strconv.ParseFloat on the plain decimal forms and the  *)
(* special values (exponents, hexadecimal floats and values beyond 64 bits *)
(* are outside the sample texts).  A parsed float is +-mant / 10^scale.    *)
(***************************************************************************)
DigitValue(c) ==
  CASE c = "0" -> 0 [] c = "1" -> 1 [] c = "2" -> 2 [] c = "3" -> 3 [] c = "4" -> 4
    [] c = "5" -> 5 [] c = "6" -> 6 [] c = "7" -> 7 [] c = "8" -> 8 [] c = "9" -> 9

RECURSIVE DecimalValue(_)
DecimalValue(s) ==
  IF Len(s) = 0 THEN 0
  ELSE 10 * DecimalValue(SubSeq(s, 1, Len(s) - 1)) + DigitValue(s[Len(s)])

HasSign(s) == Len(s) > 0 /\ s[1] \in {"+", "-"}
Unsigned(s) == IF HasSign(s) THEN Tail(s) ELSE s
IsNegative(s) == Len(s) > 0 /\ s[1] = "-"

Atoi(s) ==
  LET body == Unsigned(s)
  IN  IF Len(body) > 0 /\ AllIn(body, 1, Len(body), Digits)
      THEN [ok |-> TRUE, value |-> IF IsNegative(s) THEN 0 - DecimalValue(body) ELSE DecimalValue(body)]
      ELSE [ok |-> FALSE, value |-> 0]

LowerCase(c) ==
  CASE c = "N" -> "n" [] c = "A" -> "a" [] c = "I" -> "i" [] c = "F" -> "f"
    [] c = "T" -> "t" [] c = "Y" -> "y" [] c = "P" -> "p" [] c = "G" -> "g"
    [] c = "D" -> "d" [] OTHER -> c
Lowered(s) == [k \in 1..Len(s) |-> LowerCase(s[k])]

FloatError == [ok |-> FALSE, kind |-> "num", neg |-> FALSE, mant |-> 0, scale |-> 0]

ParseFloat(s) ==
  LET body == Unsigned(s)
      dots == {k \in 1..Len(body) : body[k] = "."}
      digitsOnly == ReplaceAll(body, ".")
  IN  IF Lowered(s) = <<"n", "a", "n">>
      THEN [ok |-> TRUE, kind |-> "nan", neg |-> FALSE, mant |-> 0, scale |-> 0]
      ELSE IF Lowered(body) \in {<<"i", "n", "f">>, <<"i", "n", "f", "i", "n", "i", "t", "y">>}
      THEN [ok |-> TRUE, kind |-> "inf", neg |-> IsNegative(s), mant |-> 0, scale |-> 0]
      ELSE IF /\ Cardinality(dots) <= 1
              /\ Len(digitsOnly) > 0
              /\ AllIn(digitsOnly, 1, Len(digitsOnly), Digits)
      THEN [ok |-> TRUE, kind |-> "num", neg |-> IsNegative(s),
            mant |-> DecimalValue(digitsOnly),
            scale |-> IF dots = {} THEN 0 ELSE Len(body) - (CHOOSE k \in dots : TRUE)]
      ELSE FloatError

\* amount <= 0 on float64: false for NaN
FloatNotPositive(f) ==
  CASE f.kind = "nan" -> FALSE
    [] f.kind = "inf" -> f.neg
    [] f.kind = "num" -> f.neg \/ f.mant = 0

\* lines 88-112 of RequestFinancing
FinancingError(q) ==
  IF Len(q.amount) = 0 THEN "Amount is required"
  ELSE IF ~ParseFloat(q.amount).ok \/ FloatNotPositive(ParseFloat(q.amount))
       THEN "Invalid amount. Must be a positive number"
  ELSE IF q.purpose = "" THEN "Purpose is required"
  ELSE IF Len(q.repayment_period) = 0 THEN "Repayment period is required"
  ELSE IF ~Atoi(q.repayment_period).ok \/ Atoi(q.repayment_period).value <= 0
       THEN "Invalid repayment period. Must be a positive number of months"
  ELSE ""

SubmitValid == [amount |-> <<"2", "5", "0", ".", "5">>, purpose |-> "stock",
                repayment_period |-> <<"1", "2">>]
SubmitInvalid ==
  { [SubmitValid EXCEPT !.amount = a] :
      a \in {Empty, <<"-", "5">>, <<"0">>, <<"a", "b", "c">>, <<"1", ".", "2", ".", "3">>} }
  \cup { [SubmitValid EXCEPT !.purpose = ""] }
  \cup { [SubmitValid EXCEPT !.repayment_period = m] :
      m \in {Empty, <<"0">>, <<"-", "3">>, <<"1", ".", "5">>} }
  \cup { [amount |-> <<"-", "5">>, purpose |-> "", repayment_period |-> <<"0">>],
         [amount |-> <<"7">>, purpose |-> "", repayment_period |-> Empty] }

\* texts that ParseFloat accepts without their being decimal numerals
SubmitSpecial ==
  { [SubmitValid EXCEPT !.amount = a] :
      a \in {<<"N", "a", "N">>, <<"-", "i", "n", "f">>} }

(***************************************************************************)
(* An uploaded trade-license file (the trade[file] part of a multipart     *)
(* form): the name the client gave it, the extension filepath.Ext finds in *)
(* that name (without the dot), and its size in bytes.                     *)
(***************************************************************************)
FilePDF == [filename |-> "c.pdf", ext |-> <<"p", "d", "f">>, size |-> 2048]
FilePNG == [filename |-> "d.PNG", ext |-> <<"P", "N", "G">>,
            size |-> MaxFileSizeMB * 1024 * 1024]
FileExe == [FilePDF EXCEPT !.filename = "c.exe", !.ext = <<"e", "x", "e">>]
FileNoExt == [FilePDF EXCEPT !.filename = "c", !.ext = <<>>]
FileEmpty == [FilePDF EXCEPT !.size = 0]
FileTooBig == [FilePDF EXCEPT !.size = MaxFileSizeMB * 1024 * 1024 + 1]
Files == {FilePDF, FilePNG, FileExe, FileNoExt, FileEmpty, FileTooBig}

AllowedFileTypes == {<<"p", "d", "f">>, <<"j", "p", "g">>, <<"j", "p", "e", "g">>,
                     <<"p", "n", "g">>}
ValidateFileType(ext, allowedTypes) ==
  ext # <<>> /\ \E allowedType \in allowedTypes : Lowered(allowedType) = Lowered(ext)
ValidateFileSize(fileSize, maxSizeMB) ==
  fileSize <= maxSizeMB * 1024 * 1024 /\ fileSize > 0
\* the checks of FullRegistration on the uploaded file
FileError(file) ==
  IF ~ValidateFileType(file.ext, AllowedFileTypes)
  THEN "Invalid file type. Only PDF, JPG, and PNG files are allowed"
  ELSE IF ~ValidateFileSize(file.size, MaxFileSizeMB)
  THEN "File size exceeds 10MB limit"
  ELSE ""
\* the public URL UploadFileToSupabase returns: the bucket, then a fresh
\* name that ends in the extension of the client's name
PublicURL(file) ==
  CASE file.ext = <<"p", "d", "f">> ->
         "https://project.supabase.co/storage/v1/object/public/vercel_bucket/uuid_unix.pdf"
    [] file.ext = <<"P", "N", "G">> ->
         "https://project.supabase.co/storage/v1/object/public/vercel_bucket/uuid_unix.PNG"
    [] OTHER ->
         "https://project.supabase.co/storage/v1/object/public/vercel_bucket/uuid_unix"
\* a trade license that keeps the client's name where the URL belongs
TradeOfUpload_KeepsName(file, fileURL) ==
  [filename |-> file.filename, file_url |-> file.filename]
\* req.Trade after the upload (lines 231 and 245)
TradeOfUpload(file, fileURL) == [filename |-> file.filename, file_url |-> fileURL]
\* the trade part of a multipart request that carries a file: the form
\* values are not read
NoTrade == [filename |-> "", file_url |-> ""]

(***************************************************************************)
(* The backing store's constraints.                                        *)
(***************************************************************************)
\* users.email is unique: a second row for an email is rejected
UserInsertAccepted(email) == UsersByEmail(email) = {}
\* the sub-record tables accept any row: one row per account is kept by the
\* upsert alone
SubRecordInsertAccepted(kind, userID) == TRUE

(***************************************************************************)
(* Requests.                                                               *)
(***************************************************************************)
SendOTPRequests == {[op |-> "SendOTP", email |-> e] : e \in {EmailA, EmailB, Empty, EmailNoTLD}}
VerifyOTPRequests ==
  {[op |-> "VerifyOTP", email |-> e, otp |-> c] :
      e \in {EmailA, EmailB}, c \in {DefaultOTP, OtherOTP, ShortOTP, Empty}}
  \cup {[op |-> "VerifyOTP", email |-> Empty, otp |-> DefaultOTP]}

UpsertRequests(userID, data) ==
  UNION {{[op |-> "Upsert", user_id |-> userID, kind |-> k, data |-> d] : d \in data[k]} :
            k \in KindSet}
FullRegistrationRequests(userID, payloads) ==
  {[op |-> "FullRegistration", user_id |-> userID, data |-> f] : f \in payloads}
StatusRequests(userID) == {[op |-> "Status", user_id |-> userID]}
SubmitRequests(userID, inputs) ==
  {[op |-> "Submit", user_id |-> userID, amount |-> i.amount, purpose |-> i.purpose,
    repayment_period |-> i.repayment_period] : i \in inputs}

\* the id query parameter of request-detail: left out, not a UUID, or the
\* UUID of the value-th request ever created (of one never created, when
\* value is larger than the ledger)
RequestIDs ==
  {[form |-> "absent", value |-> 0], [form |-> "malformed", value |-> 0]}
  \cup {[form |-> "uuid", value |-> n] : n \in 1..(MaxFinancing + 1)}
ListRequests(userID) == {[op |-> "List", user_id |-> userID]}
GetRequests(userID) == {[op |-> "Get", user_id |-> userID, id |-> i] : i \in RequestIDs}
LatestRequests(userID) == {[op |-> "Latest", user_id |-> userID]}

\* full-registration as a multipart form with a trade[file] part
HasFile(q) == "file" \in DOMAIN q
UploadRequests(userID) ==
  {[op |-> "FullRegistration", user_id |-> userID, data |-> [f EXCEPT !.trade = NoTrade],
    file |-> file] :
      f \in {FullA, [FullB EXCEPT !.personal.phone_number = PhoneShort],
             [FullB EXCEPT !.business.business_name = ""]},
      file \in Files}
\* the requests of the registration endpoints, with and without a file
RegistrationRequests(userID) ==
  UploadRequests(userID)
  \cup FullRegistrationRequests(userID, {FullB, [FullB EXCEPT !.trade.file_url = ""]})
  \cup StatusRequests(userID)

\* what the holder of a credential does with it right after login
SessionRequests(userID) ==
  StatusRequests(userID) \cup FullRegistrationRequests(userID, {FullA})

\* the requests of the financing endpoints
LedgerRequests(userID) ==
  SubmitRequests(userID, {SubmitValid})
  \cup ListRequests(userID) \cup GetRequests(userID) \cup LatestRequests(userID)

\* every request of the registration and financing endpoints
AllRequests(userID) ==
  UpsertRequests(userID, ValidData) \cup UpsertRequests(userID, InvalidData)
  \cup FullRegistrationRequests(userID, {FullA, FullB} \cup FullInvalid)
  \cup StatusRequests(userID)
  \cup SubmitRequests(userID, {SubmitValid} \cup SubmitInvalid \cup SubmitSpecial)

\* the requests that are raced against each other
RacingRequests(userID) ==
  UpsertRequests(userID, ValidData)
  \cup FullRegistrationRequests(userID, {FullB})
  \cup StatusRequests(userID)
  \cup SubmitRequests(userID, {SubmitValid})

(***************************************************************************)
(* Handler plumbing.                                                       *)
(***************************************************************************)
Busy(r) == pc[r] \notin {"idle", "done"}
InFlight(op) == Cardinality({r \in Workers : Busy(r) /\ req[r].op = op})

Goto(r, label) == pc' = [pc EXCEPT ![r] = label]
Respond(r, code, message, data) ==
  /\ pc' = [pc EXCEPT ![r] = "done"]
  /\ resp' = [resp EXCEPT ![r] = [code |-> code, message |-> message, data |-> data]]
NoData == [none |-> TRUE]

\* a verify-otp that makes the credential for an id of its own
Subject_FreshID(r) == IF req[r].op = "VerifyOTP" THEN Len(users) + 1 ELSE req[r].user_id
\* the account a request acts for: the X-User-ID header set by the
\* middleware, or in verify-otp the user found by email
Subject(r) == IF req[r].op = "VerifyOTP" THEN loc[r].user_id ELSE req[r].user_id

\* the sub-record kind a CreateOrUpdate of the request is working on
CurrentKind(r) == IF req[r].op = "Upsert" THEN req[r].kind ELSE Kinds[loc[r].kind]
CurrentData(r) == IF req[r].op = "Upsert" THEN req[r].data ELSE req[r].data[Kinds[loc[r].kind]]

\* what the handler checks before its first statement
EntryError(q) ==
  CASE q.op = "SendOTP" ->
         IF Len(q.email) = 0 THEN "Email is required"
         ELSE IF ~ValidateEmail(q.email) THEN "Invalid email format" ELSE ""
    [] q.op = "VerifyOTP" ->
         IF Len(q.email) = 0 THEN "Email is required"
         ELSE IF Len(q.otp) = 0 THEN "OTP is required"
         ELSE IF ~ValidateOTP(q.otp) THEN "Invalid OTP format" ELSE ""
    [] q.op = "Upsert" -> UpsertError(q.kind, q.data)
    [] q.op = "FullRegistration" ->
         IF HasFile(q) THEN FileError(q.file) ELSE FullRegistrationError(q.data)
    [] q.op = "Get" ->
         IF q.id.form = "absent" THEN "Request ID is required"
         ELSE IF q.id.form = "malformed" THEN "Invalid request ID" ELSE ""
    [] OTHER -> ""

FirstStatement(op) ==
  CASE op \in {"SendOTP"} -> "GetUserByEmail"
    [] op = "VerifyOTP" -> "VerifyOTPSelect"
    [] op \in {"Upsert", "FullRegistration"} -> "CreateOrUpdateSelect"
    [] op \in {"Status", "Submit"} -> "GetUserByID"
    [] op = "List" -> "GetFinancingRequestsByUserID"
    [] op = "Get" -> "GetFinancingRequestByID"
    [] op = "Latest" -> "GetLatestFinancingRequestByUserID"

\* a request arrives at a free worker; the handler validates it and either
\* answers 400 or moves to its first statement
Begin(r, q) ==
  /\ ~Busy(r)
  /\ q.op = "SendOTP" => Len(otps) + InFlight("SendOTP") < MaxOTPs
  /\ q.op = "Submit" => Len(financing) + InFlight("Submit") < MaxFinancing
  /\ req' = [req EXCEPT ![r] = q]
  /\ loc' = [loc EXCEPT ![r] = LocInit]
  /\ pre' = [pre EXCEPT ![r] = Snapshot]
  /\ IF EntryError(q) # ""
     THEN Respond(r, 400, EntryError(q), NoData)
     ELSE /\ Goto(r, IF HasFile(q) THEN "UploadFileToSupabase" ELSE FirstStatement(q.op))
          /\ resp' = [resp EXCEPT ![r] = NoResponse]
  /\ UNCHANGED <<tables, tokens, now, faults>>

(***************************************************************************)
(* send-otp and verify-otp.                                                *)
(***************************************************************************)
\* SELECT ... FROM users WHERE email = $1, as called by SendOTP (line 309)
\* and by the VerifyOTP handler (line 406)
GetUserByEmail(r) ==
  /\ pc[r] = "GetUserByEmail"
  /\ \E found \in (IF UsersByEmail(req[r].email) = {} THEN {0} ELSE UsersByEmail(req[r].email)) :
       CASE req[r].op = "SendOTP" ->
              /\ Goto(r, IF found = 0 THEN "UserCreate" ELSE "OTPCreate")
              /\ UNCHANGED <<loc, resp>>
         [] req[r].op = "VerifyOTP" ->
              IF found = 0
              THEN Respond(r, 404, "User not found", NoData) /\ UNCHANGED loc
              ELSE /\ loc' = [loc EXCEPT ![r].user_id = users[found].id,
                                         ![r].email = users[found].email]
                   /\ Goto(r, "GetUserByID")
                   /\ UNCHANGED resp
  /\ UNCHANGED <<tables, tokens, now, req, pre, started, faults>>

\* an INSERT INTO users that nothing can reject
UserCreate_Unchecked(r) ==
  /\ pc[r] = "UserCreate"
  /\ users' = Append(users, [id |-> Len(users) + 1, email |-> req[r].email])
  /\ Goto(r, "OTPCreate")
  /\ UNCHANGED <<otps, sub, financing, tokens, now, req, loc, resp, pre, started, faults>>

\* User.Create: INSERT INTO users
UserCreate(r) ==
  /\ pc[r] = "UserCreate"
  /\ IF UserInsertAccepted(req[r].email)
     THEN /\ users' = Append(users, [id |-> Len(users) + 1, email |-> req[r].email])
          /\ Goto(r, "OTPCreate")
          /\ UNCHANGED resp
     ELSE /\ Respond(r, 500, "Failed to create user", NoData)
          /\ UNCHANGED users
  /\ UNCHANGED <<otps, sub, financing, tokens, now, req, loc, pre, started, faults>>

\* the row of OTPVerification.Create (lines 113-116), with the code SendOTP
\* gives it
NewOTPVerification(email) ==
  [email |-> email, otp |-> DefaultOTP, created_at |-> now,
   expires_at |-> now + OTPExpiryMinutes, verified |-> FALSE]

\* OTPVerification.Create: INSERT INTO otp_verifications
OTPCreate(r) ==
  /\ pc[r] = "OTPCreate"
  /\ otps' = Append(otps, NewOTPVerification(req[r].email))
  /\ Respond(r, 200, "OTP sent successfully", [email |-> req[r].email])
  /\ UNCHANGED <<users, sub, financing, tokens, now, req, loc, pre, started, faults>>

\* the rows the SELECT of models.VerifyOTP matches
UnverifiedMatches(email, otp) ==
  {i \in DOMAIN otps : otps[i].email = email /\ otps[i].otp = otp /\ otps[i].verified = FALSE}
\* ORDER BY created_at ASC LIMIT 1
MostRecent_Oldest(rows) == CHOOSE i \in rows : \A j \in rows : i <= j
\* ORDER BY created_at DESC LIMIT 1: rows are appended in created_at order,
\* and of two rows of the same minute the later insert has the later
\* timestamp
MostRecent(rows) == CHOOSE i \in rows : \A j \in rows : j <= i
\* an expiry check that always fires
Expired_Always(row) == TRUE
\* an expiry check that never fires
Expired_Never(row) == FALSE
\* time.Now().After(ExpiresAt)
Expired(row) == now > row.expires_at
\* models.VerifyOTP returns nil: no unverified row matches, or the matched
\* row has expired
NoValidChallenge(email, otp) ==
  \/ UnverifiedMatches(email, otp) = {}
  \/ Expired(otps[MostRecent(UnverifiedMatches(email, otp))])
\* an UPDATE that matches no row
MarkVerified_Noop(table, id) == table
\* UPDATE otp_verifications SET verified = true WHERE id = $1
MarkVerified(table, id) == [table EXCEPT ![id].verified = TRUE]

\* a VerifyOTP that uses up the matched row before it looks at its expiry
VerifyOTPSelect_MarksExpired(r) ==
  /\ pc[r] = "VerifyOTPSelect"
  /\ LET rows == UnverifiedMatches(req[r].email, req[r].otp)
     IN  IF rows = {}
         THEN Respond(r, 401, "Invalid or expired OTP", NoData) /\ UNCHANGED <<loc, otps>>
         ELSE IF Expired(otps[MostRecent(rows)])
         THEN /\ otps' = MarkVerified(otps, MostRecent(rows))
              /\ Respond(r, 401, "Invalid or expired OTP", NoData) /\ UNCHANGED loc
         ELSE /\ loc' = [loc EXCEPT ![r].otp_id = MostRecent(rows)]
              /\ Goto(r, "VerifyOTPUpdate")
              /\ UNCHANGED <<resp, otps>>
  /\ UNCHANGED <<users, sub, financing, tokens, now, req, pre, started, faults>>
\* models.VerifyOTP up to its UPDATE: the SELECT and the expiry check
VerifyOTPSelect(r) ==
  /\ pc[r] = "VerifyOTPSelect"
  /\ LET rows == UnverifiedMatches(req[r].email, req[r].otp)
     IN  IF NoValidChallenge(req[r].email, req[r].otp)
         THEN Respond(r, 401, "Invalid or expired OTP", NoData) /\ UNCHANGED loc
         ELSE /\ loc' = [loc EXCEPT ![r].otp_id = MostRecent(rows)]
              /\ Goto(r, "VerifyOTPUpdate")
              /\ UNCHANGED resp
  /\ UNCHANGED <<tables, tokens, now, req, pre, started, faults>>

\* models.VerifyOTP from its UPDATE on
VerifyOTPUpdate(r) ==
  /\ pc[r] = "VerifyOTPUpdate"
  /\ otps' = MarkVerified(otps, loc[r].otp_id)
  /\ Goto(r, "GetUserByEmail")
  /\ UNCHANGED <<users, sub, financing, tokens, now, req, loc, resp, pre, started, faults>>

(***************************************************************************)
(* The upload of full-registration, then the validation of the fields.     *)
(***************************************************************************)
\* UploadFileToSupabase has returned the public URL
UploadFileToSupabase(r) ==
  /\ pc[r] = "UploadFileToSupabase"
  /\ LET fileURL == PublicURL(req[r].file)
         data == [req[r].data EXCEPT !.trade = TradeOfUpload(req[r].file, fileURL)]
     IN  /\ loc' = [loc EXCEPT ![r].file_url = fileURL]
         /\ req' = [req EXCEPT ![r].data = data]
         /\ IF FullRegistrationError(data) # ""
            THEN Respond(r, 400, FullRegistrationError(data), NoData)
            ELSE Goto(r, "CreateOrUpdateSelect") /\ UNCHANGED resp
  /\ UNCHANGED <<tables, tokens, now, pre, started, faults>>

(***************************************************************************)
(* CreateOrUpdate of the three sub-records: a SELECT, then an INSERT or an *)
(* UPDATE, as two statements outside any transaction.                      *)
(***************************************************************************)
CreateOrUpdateSelect(r) ==
  /\ pc[r] = "CreateOrUpdateSelect"
  /\ loc' = [loc EXCEPT ![r].existing = HasSubRecord(CurrentKind(r), Subject(r))]
  /\ Goto(r, "CreateOrUpdateExec")
  /\ UNCHANGED <<tables, tokens, now, req, resp, pre, started, faults>>

\* INSERT INTO <kind table> (..., user_id, <fields>, ...)
InsertSubRecord(table, userID, data) == Append(table, [user_id |-> userID, data |-> data])
\* an UPDATE whose SET list misses one column
UpdateSubRecord_MissingColumn(table, userID, data) ==
  LET missing == CHOOSE f \in DOMAIN data : TRUE
  IN  [i \in DOMAIN table |->
         IF table[i].user_id = userID
         THEN [table[i] EXCEPT !.data = [f \in DOMAIN data |->
                                           IF f = missing THEN table[i].data[f] ELSE data[f]]]
         ELSE table[i]]
\* a second save that clears the table: a DELETE in place of the UPDATE
UpdateSubRecord_Deletes(table, userID, data) == <<>>
\* a second save that removes the row it finds
UpdateSubRecord_Removes(table, userID, data) ==
  SelectSeq(table, LAMBDA row : row.user_id # userID)
\* an UPDATE without its WHERE clause
UpdateSubRecord_AllRows(table, userID, data) ==
  [i \in DOMAIN table |-> [table[i] EXCEPT !.data = data]]
\* UPDATE <kind table> SET <fields> WHERE user_id = $n
UpdateSubRecord(table, userID, data) ==
  [i \in DOMAIN table |-> IF table[i].user_id = userID
                          THEN [table[i] EXCEPT !.data = data] ELSE table[i]]

SavedMessage(kind) ==
  CASE kind = "personal" -> "Personal details saved successfully"
    [] kind = "business" -> "Business details saved successfully"
    [] kind = "trade" -> "Trade license saved successfully"
FailedToSaveMessage(kind) ==
  CASE kind = "personal" -> "Failed to save personal details"
    [] kind = "business" -> "Failed to save business details"
    [] kind = "trade" -> "Failed to save trade license"

CreateOrUpdateExec(r) ==
  /\ pc[r] = "CreateOrUpdateExec"
  /\ LET kind == CurrentKind(r)
     IN  IF ~loc[r].existing /\ ~SubRecordInsertAccepted(kind, Subject(r))
         THEN /\ Respond(r, 500, FailedToSaveMessage(kind), NoData)
              /\ UNCHANGED <<sub, loc>>
         ELSE /\ sub' = [sub EXCEPT ![kind] =
                           IF loc[r].existing
                           THEN UpdateSubRecord(sub[kind], Subject(r), CurrentData(r))
                           ELSE InsertSubRecord(sub[kind], Subject(r), CurrentData(r))]
              /\ CASE req[r].op = "Upsert" ->
                        Respond(r, 200, SavedMessage(kind), req[r].data) /\ UNCHANGED loc
                   [] req[r].op = "FullRegistration" /\ loc[r].kind < 3 ->
                        /\ loc' = [loc EXCEPT ![r].kind = loc[r].kind + 1]
                        /\ Goto(r, "CreateOrUpdateSelect")
                        /\ UNCHANGED resp
                   [] req[r].op = "FullRegistration" /\ loc[r].kind = 3 ->
                        /\ loc' = [loc EXCEPT ![r].kind = 1]
                        /\ Goto(r, "GetUserByID")
                        /\ UNCHANGED resp
  /\ UNCHANGED <<users, otps, financing, tokens, now, req, pre, started, faults>>

(***************************************************************************)
(* GetAccountStatus: four SELECTs, then what its caller does with the      *)
(* result.                                                                 *)
(***************************************************************************)
\* the projection of an account in the current state of the store
GetAccountStatus(userID) ==
  AccountStatus(userID, users[CHOOSE i \in UsersByID(userID) : TRUE].email,
                HasSubRecord("personal", userID), HasSubRecord("business", userID),
                HasSubRecord("trade", userID))

IncompleteMessage == "Please complete your registration before requesting financing"
\* a gate that lets every account through
MayRequestFinancing_Always(status) == TRUE
\* a gate that looks at the personal details only
MayRequestFinancing_PersonalOnly(status) == status.has_personal_details
\* the gate of RequestFinancing (line 53), for a status that is not nil
MayRequestFinancing(status) == status.is_complete

\* GetUserByID inside GetAccountStatus (lines 273-279); a nil user makes
\* GetAccountStatus return nil at once
GetUserByID(r) ==
  /\ pc[r] = "GetUserByID"
  /\ IF UsersByID(Subject(r)) # {}
     THEN /\ loc' = [loc EXCEPT ![r].found = TRUE,
                                ![r].email = users[CHOOSE i \in UsersByID(Subject(r)) : TRUE].email]
          /\ Goto(r, "GetAccountStatus")
          /\ UNCHANGED resp
     ELSE CASE req[r].op = "Status" ->
                 Respond(r, 404, "Account not found", NoData) /\ UNCHANGED loc
            [] req[r].op = "Submit" ->
                 Respond(r, 400, IncompleteMessage, NoData) /\ UNCHANGED loc
            [] req[r].op = "VerifyOTP" ->
                 Respond(r, 0, "panic: nil pointer dereference", NoData) /\ UNCHANGED loc
            [] req[r].op = "FullRegistration" ->
                 Goto(r, "GetRegistrationSummary") /\ UNCHANGED <<loc, resp>>
  /\ UNCHANGED <<tables, tokens, now, req, pre, started, faults>>

\* a request created as already approved
NewFinancingRequest_Approved(q) ==
  [user_id |-> q.user_id, amount |-> ParseFloat(q.amount), purpose |-> q.purpose,
   repayment_period |-> Atoi(q.repayment_period).value, status |-> "approved"]

\* the data of a created FinancingRequest (lines 115-121 of RequestFinancing)
NewFinancingRequest(q) ==
  [user_id |-> q.user_id, amount |-> ParseFloat(q.amount), purpose |-> q.purpose,
   repayment_period |-> Atoi(q.repayment_period).value, status |-> "pending"]

\* the three existence checks of GetAccountStatus, one per step, and after
\* the last one the caller's use of the status
GetAccountStatusRead(r) ==
  /\ pc[r] = "GetAccountStatus"
  /\ LET kind == Kinds[loc[r].kind]
         has == [loc[r].has EXCEPT ![kind] = HasSubRecord(kind, Subject(r))]
         status == AccountStatus(Subject(r), loc[r].email,
                                 has["personal"], has["business"], has["trade"])
     IN  IF loc[r].kind < 3
         THEN /\ loc' = [loc EXCEPT ![r].has = has, ![r].kind = loc[r].kind + 1]
              /\ UNCHANGED <<pc, resp, tokens>>
         ELSE /\ loc' = [loc EXCEPT ![r].has = has, ![r].kind = 1]
              /\ CASE req[r].op = "Status" ->
                        /\ Respond(r, 200, "Account status retrieved successfully", status)
                        /\ UNCHANGED tokens
                   [] req[r].op = "VerifyOTP" ->
                        /\ tokens' = tokens \cup {[user_id |-> Subject(r), email |-> loc[r].email]}
                        /\ Respond(r, 200, "OTP verified successfully",
                                   [user_id |-> Subject(r), email |-> loc[r].email,
                                    account_status |-> status.status])
                   [] req[r].op = "Submit" ->
                        /\ IF ~MayRequestFinancing(status)
                           THEN Respond(r, 400, IncompleteMessage, NoData)
                           ELSE IF FinancingError(req[r]) # ""
                           THEN Respond(r, 400, FinancingError(req[r]), NoData)
                           ELSE Goto(r, "FinancingCreate") /\ UNCHANGED resp
                        /\ UNCHANGED tokens
                   [] req[r].op = "FullRegistration" ->
                        /\ Goto(r, "GetRegistrationSummary")
                        /\ UNCHANGED <<resp, tokens>>
  /\ UNCHANGED <<tables, now, req, pre, started, faults>>

\* GetRegistrationSummary as called by FullRegistration (line 343), then the
\* response of FullRegistration (lines 349-355)
GetRegistrationSummary(r) ==
  /\ pc[r] = "GetRegistrationSummary"
  /\ LET kind == Kinds[loc[r].kind]
         status == AccountStatus(Subject(r), loc[r].email, loc[r].has["personal"],
                                 loc[r].has["business"], loc[r].has["trade"])
         Reply(summary) ==
           IF loc[r].found
           THEN Respond(r, 200, "Full registration saved successfully",
                        [personal |-> req[r].data.personal, business |-> req[r].data.business,
                         trade |-> req[r].data.trade, status |-> status.status,
                         summary |-> summary])
           ELSE Respond(r, 0, "panic: nil pointer dereference", NoData)
     IN  IF GetSubRecord(kind, Subject(r)) = {}
         THEN Reply(<<>>) /\ UNCHANGED loc
         ELSE \E row \in GetSubRecord(kind, Subject(r)) :
                IF loc[r].kind < 3
                THEN /\ loc' = [loc EXCEPT ![r].summary = Append(loc[r].summary, row),
                                           ![r].kind = loc[r].kind + 1]
                     /\ UNCHANGED <<pc, resp>>
                ELSE /\ Reply(Append(loc[r].summary, row))
                     /\ UNCHANGED loc
  /\ UNCHANGED <<tables, tokens, now, req, pre, started, faults>>

\* a Create that marks the earlier requests of the account as superseded
FinancingCreate_Supersedes(r) ==
  /\ pc[r] = "FinancingCreate"
  /\ financing' =
       Append([i \in DOMAIN financing |->
                 IF financing[i].user_id = req[r].user_id
                 THEN [financing[i] EXCEPT !.status = "superseded"]
                 ELSE financing[i]],
              NewFinancingRequest(req[r]))
  /\ Respond(r, 201, "Financing request submitted successfully",
             [id |-> Len(financing) + 1] @@ NewFinancingRequest(req[r]))
  /\ UNCHANGED <<users, otps, sub, tokens, now, req, loc, pre, started, faults>>

\* FinancingRequest.Create: INSERT INTO financing_requests
FinancingCreate(r) ==
  /\ pc[r] = "FinancingCreate"
  /\ financing' = Append(financing, NewFinancingRequest(req[r]))
  /\ Respond(r, 201, "Financing request submitted successfully",
             [id |-> Len(financing) + 1] @@ NewFinancingRequest(req[r]))
  /\ UNCHANGED <<users, otps, sub, tokens, now, req, loc, pre, started, faults>>

(***************************************************************************)
(* Reading the ledger.  The id of a request is its position in financing;  *)
(* requests are created one INSERT at a time, so a later position is a     *)
(* later created_at.                                                       *)
(***************************************************************************)
\* a stored request as the queries scan it
FinancingRow(i) == [id |-> i] @@ financing[i]
\* WHERE user_id = $1
OwnedRequests(userID) == {i \in DOMAIN financing : financing[i].user_id = userID}

RECURSIVE NewestFirst(_)
\* ORDER BY created_at DESC
NewestFirst(ids) ==
  IF ids = {} THEN <<>>
  ELSE LET newest == CHOOSE i \in ids : \A j \in ids : j <= i
       IN  <<FinancingRow(newest)>> \o NewestFirst(ids \ {newest})

\* the rows of GetFinancingRequestsByUserID
FinancingRequestsByUserID(userID) == NewestFirst(OwnedRequests(userID))

\* the JSON value null
Null == [null |-> TRUE]
\* the data of the envelope for a slice: GetFinancingRequestsByUserID
\* declares its result with var and appends one element per row, so with
\* no row the slice is nil, and a nil slice held in Data is encoded as null
\* (omitempty leaves out a nil interface only)
MarshalSlice(rows) == IF rows = <<>> THEN Null ELSE rows

\* GetFinancingRequests: the query, then the response
GetFinancingRequestsByUserID(r) ==
  /\ pc[r] = "GetFinancingRequestsByUserID"
  /\ Respond(r, 200, "Financing requests retrieved successfully",
             MarshalSlice(FinancingRequestsByUserID(req[r].user_id)))
  /\ UNCHANGED <<tables, tokens, now, req, loc, pre, started, faults>>

\* an ownership check that lets everyone through
RequestOwnedBy_Anyone(row, userID) == TRUE
\* the ownership check of GetFinancingRequest (line 191)
RequestOwnedBy(row, userID) == row.user_id = userID

\* GetFinancingRequest: SELECT ... WHERE id = $1, then the response
GetFinancingRequestByID(r) ==
  /\ pc[r] = "GetFinancingRequestByID"
  /\ IF req[r].id.value \notin DOMAIN financing
     THEN Respond(r, 404, "Financing request not found", NoData)
     ELSE IF ~RequestOwnedBy(FinancingRow(req[r].id.value), req[r].user_id)
     THEN Respond(r, 403, "Unauthorized to access this request", NoData)
     ELSE Respond(r, 200, "Financing request retrieved successfully",
                  FinancingRow(req[r].id.value))
  /\ UNCHANGED <<tables, tokens, now, req, loc, pre, started, faults>>

\* a query that orders the other way round
LatestFinancingRequestByUserID_Oldest(userID) ==
  LET rows == FinancingRequestsByUserID(userID)
  IN  IF rows = <<>> THEN {} ELSE {rows[Len(rows)]}
\* the row of GetLatestFinancingRequestByUserID: ORDER BY created_at DESC
\* LIMIT 1, nil when there is none
LatestFinancingRequestByUserID(userID) ==
  IF OwnedRequests(userID) = {} THEN {}
  ELSE {FinancingRow(CHOOSE i \in OwnedRequests(userID) :
                       \A j \in OwnedRequests(userID) : j <= i)}

\* GetLatestFinancingRequest: the query, then the response
GetLatestFinancingRequestByUserID(r) ==
  /\ pc[r] = "GetLatestFinancingRequestByUserID"
  /\ IF LatestFinancingRequestByUserID(req[r].user_id) = {}
     THEN Respond(r, 200, "No financing request found", NoData)
     ELSE Respond(r, 200, "Latest financing request retrieved successfully",
                  CHOOSE row \in LatestFinancingRequestByUserID(req[r].user_id) : TRUE)
  /\ UNCHANGED <<tables, tokens, now, req, loc, pre, started, faults>>

(***************************************************************************)
(* A statement fails in the store (connection lost, timeout, ...): it has  *)
(* no effect and the handler answers 500 with the message of that call.    *)
(***************************************************************************)
StorageErrorMessage(r) ==
  CASE pc[r] \in {"CreateOrUpdateSelect", "CreateOrUpdateExec"} ->
         FailedToSaveMessage(CurrentKind(r))
    [] pc[r] = "UserCreate" -> "Failed to create user"
    [] pc[r] = "OTPCreate" -> "Failed to create OTP verification"
    [] pc[r] = "FinancingCreate" -> "Failed to create financing request"
    [] pc[r] = "GetRegistrationSummary" -> "Failed to get registration summary"
    [] pc[r] = "UploadFileToSupabase" -> "Failed to upload file: upload failed"
    [] pc[r] \in {"GetUserByID", "GetAccountStatus"}
         /\ req[r].op \in {"VerifyOTP", "FullRegistration"} -> "Failed to get account status"
    [] OTHER -> "Database error"

StorageError(r) ==
  /\ Busy(r)
  /\ faults < MaxFaults
  /\ faults' = faults + 1
  /\ Respond(r, 500, StorageErrorMessage(r), NoData)
  /\ UNCHANGED <<tables, tokens, now, req, loc, pre, started>>

\* time passes
Tick ==
  /\ now + TickMinutes <= MaxTime
  /\ now' = now + TickMinutes
  /\ UNCHANGED <<tables, tokens, pc, req, loc, resp, pre, started, faults>>

(***************************************************************************)
(* The bearer-token middleware in front of the protected routes.  An       *)
(* Authorization header is a sequence of items: a piece of text, or a      *)
(* signed token, which is written by what its verification looks at.       *)
(***************************************************************************)
NoJWT == [alg |-> "", key |-> "", user_id |-> 0, email |-> Empty, expires_at |-> 0]
Word(text) == [text |-> text, jwt |-> NoJWT]
Credential(jwt) == [text |-> "", jwt |-> jwt]
Space == Word(" ")
Bearer == Word("Bearer")

\* the token of GenerateJWT, issued at time issuedAt (in minutes)
GenerateJWT(userID, email, issuedAt) ==
  [alg |-> "HS256", key |-> JWTSecret, user_id |-> userID, email |-> email,
   expires_at |-> issuedAt + JWTExpiryHours * 60]

RECURSIVE Split(_, _)
\* strings.Split(s, sep) for a separator of one item
Split(s, sep) ==
  IF \A i \in DOMAIN s : s[i] # sep THEN <<s>>
  ELSE LET first == CHOOSE i \in DOMAIN s : s[i] = sep /\ \A j \in 1..(i - 1) : s[j] # sep
       IN  <<SubSeq(s, 1, first - 1)>> \o Split(SubSeq(s, first + 1, Len(s)), sep)

HMACMethods == {"HS256", "HS384", "HS512"}
NoClaims == [ok |-> FALSE, user_id |-> 0, email |-> Empty]
\* a verification that does not look at the expiry
ValidateJWT_IgnoresExpiry(tokenString, t) ==
  IF Len(tokenString) # 1 \/ tokenString[1].jwt = NoJWT THEN NoClaims
  ELSE LET jwt == tokenString[1].jwt
       IN  IF jwt.alg \notin HMACMethods THEN NoClaims
           ELSE IF jwt.key # JWTSecret THEN NoClaims
           ELSE [ok |-> TRUE, user_id |-> jwt.user_id, email |-> jwt.email]
\* ValidateJWT at time t: the text must parse as a token, its signing method
\* must be an HMAC, its signature must verify under the secret and its
\* expiry must lie ahead
ValidateJWT(tokenString, t) ==
  IF Len(tokenString) # 1 \/ tokenString[1].jwt = NoJWT THEN NoClaims
  ELSE LET jwt == tokenString[1].jwt
       IN  IF jwt.alg \notin HMACMethods THEN NoClaims
           ELSE IF jwt.key # JWTSecret THEN NoClaims
           ELSE IF ~(t < jwt.expires_at) THEN NoClaims
           ELSE [ok |-> TRUE, user_id |-> jwt.user_id, email |-> jwt.email]

\* JWTAuthMiddleware: the message of its 401, or "" and the claims it puts
\* into X-User-ID and X-User-Email before it calls the handler
JWTAuthMiddleware(authHeader) ==
  LET parts == Split(authHeader, Space)
  IN  IF authHeader = <<>>
      THEN [message |-> "Authorization header is required", claims |-> NoClaims]
      ELSE IF Len(parts) # 2 \/ parts[1] # <<Bearer>>
      THEN [message |-> "Invalid authorization header format", claims |-> NoClaims]
      ELSE IF ~ValidateJWT(parts[2], now).ok
      THEN [message |-> "Invalid or expired token", claims |-> NoClaims]
      ELSE [message |-> "", claims |-> ValidateJWT(parts[2], now)]

\* the header a client sends with the credential it was issued at login
\* (time 0 in InitLoggedIn)
IssuedHeader(t) == <<Bearer, Space, Credential(GenerateJWT(t.user_id, t.email, 0))>>
\* headers that do not carry a good credential: none, a scheme alone, an
\* empty token, a token alone, another scheme, two spaces, text that is no
\* token, a token that expired, one signed with another key, one that is
\* not signed with an HMAC
OtherHeaders(t) ==
  LET good == GenerateJWT(t.user_id, t.email, 0)
  IN  {<<>>, <<Bearer>>, <<Bearer, Space>>, <<Credential(good)>>,
       <<Word("bearer"), Space, Credential(good)>>,
       <<Bearer, Space, Space, Credential(good)>>,
       <<Bearer, Space, Word("garbage")>>,
       <<Bearer, Space, Credential([good EXCEPT !.expires_at = now])>>,
       <<Bearer, Space, Credential([good EXCEPT !.key = "guess"])>>,
       <<Bearer, Space, Credential([good EXCEPT !.alg = "none", !.key = ""])>>}
AuthorizationHeaders == UNION {{IssuedHeader(t)} \cup OtherHeaders(t) : t \in tokens}

\* the middleware answers 401 and returns without calling the handler
Unauthorized(r, authHeader) ==
  /\ ~Busy(r)
  /\ req' = [req EXCEPT ![r] = [op |-> "Unauthorized", header |-> authHeader]]
  /\ loc' = [loc EXCEPT ![r] = LocInit]
  /\ pre' = [pre EXCEPT ![r] = Snapshot]
  /\ Respond(r, 401, JWTAuthMiddleware(authHeader).message, NoData)
  /\ UNCHANGED <<tables, tokens, now, faults>>

(***************************************************************************)
(* Specifications.                                                         *)
(***************************************************************************)
\* the worker that takes the next request: one that has answered its last
\* request or, of those that never ran (they are all alike), the first
Available(r) == ~Busy(r) /\ \A s \in 1..(r - 1) : pc[s] # "idle"

\* an authenticated request of the registration and financing endpoints
\* arrives while others may be in progress
StartRequest(r) ==
  /\ Available(r)
  /\ started < MaxRequests
  /\ started' = started + 1
  /\ \E t \in tokens : \E q \in RacingRequests(t.user_id) : Begin(r, q)

\* requests arrive one after the other at the protected routes; each passes
\* the middleware first, and the handler acts for the account of the claims
StartAlone ==
  /\ \A r \in Workers : ~Busy(r)
  /\ UNCHANGED started
  /\ \E authHeader \in AuthorizationHeaders :
       IF JWTAuthMiddleware(authHeader).message # ""
       THEN Unauthorized(1, authHeader)
       ELSE \E q \in AllRequests(JWTAuthMiddleware(authHeader).claims.user_id) :
              Begin(1, [header |-> authHeader] @@ q)

\* a send-otp or verify-otp request arrives
StartAuthRequest(r) ==
  /\ Available(r)
  /\ started < MaxAuthRequests
  /\ started' = started + 1
  /\ \E q \in SendOTPRequests \cup VerifyOTPRequests : Begin(r, q)

\* requests of the financing endpoints arrive one after the other, from
\* either account
StartLedgerRequest ==
  /\ \A r \in Workers : ~Busy(r)
  /\ UNCHANGED started
  /\ \E t \in tokens : \E q \in LedgerRequests(t.user_id) : Begin(1, q)

Next ==
  \E r \in Workers :
    \/ StartRequest(r)
    \/ CreateOrUpdateSelect(r)
    \/ CreateOrUpdateExec(r)
    \/ GetUserByID(r)
    \/ GetAccountStatusRead(r)
    \/ GetRegistrationSummary(r)
    \/ FinancingCreate(r)
    \/ StorageError(r)

NextSeq ==
  \/ StartAlone
  \/ \E r \in Workers :
       \/ CreateOrUpdateSelect(r)
       \/ CreateOrUpdateExec(r)
       \/ GetUserByID(r)
       \/ GetAccountStatusRead(r)
       \/ GetRegistrationSummary(r)
       \/ FinancingCreate(r)
       \/ StorageError(r)

NextAuth ==
  \/ Tick
  \/ \E r \in Workers :
       \/ StartAuthRequest(r)
       \/ GetUserByEmail(r)
       \/ UserCreate(r)
       \/ OTPCreate(r)
       \/ VerifyOTPSelect(r)
       \/ VerifyOTPUpdate(r)
       \/ GetUserByID(r)
       \/ GetAccountStatusRead(r)
       \/ StorageError(r)

\* full-registration and status requests arrive one after the other
StartRegistration ==
  /\ \A r \in Workers : ~Busy(r)
  /\ UNCHANGED started
  /\ \E t \in tokens : \E q \in RegistrationRequests(t.user_id) : Begin(1, q)

NextUpload ==
  \/ StartRegistration
  \/ \E r \in Workers :
       \/ UploadFileToSupabase(r)
       \/ CreateOrUpdateSelect(r)
       \/ CreateOrUpdateExec(r)
       \/ GetUserByID(r)
       \/ GetAccountStatusRead(r)
       \/ GetRegistrationSummary(r)
       \/ StorageError(r)

\* logins and the requests of those who logged in arrive one after the other
StartSession ==
  /\ \A r \in Workers : ~Busy(r)
  /\ UNCHANGED started
  /\ \/ \E q \in SendOTPRequests \cup VerifyOTPRequests : Begin(1, q)
     \/ \E t \in tokens : \E q \in SessionRequests(t.user_id) : Begin(1, q)

NextSession ==
  \/ StartSession
  \/ \E r \in Workers :
       \/ GetUserByEmail(r)
       \/ UserCreate(r)
       \/ OTPCreate(r)
       \/ VerifyOTPSelect(r)
       \/ VerifyOTPUpdate(r)
       \/ CreateOrUpdateSelect(r)
       \/ CreateOrUpdateExec(r)
       \/ GetUserByID(r)
       \/ GetAccountStatusRead(r)
       \/ GetRegistrationSummary(r)
       \/ StorageError(r)

NextLedger ==
  \/ StartLedgerRequest
  \/ \E r \in Workers :
       \/ GetUserByID(r)
       \/ GetAccountStatusRead(r)
       \/ FinancingCreate(r)
       \/ GetFinancingRequestsByUserID(r)
       \/ GetFinancingRequestByID(r)
       \/ GetLatestFinancingRequestByUserID(r)
       \/ StorageError(r)

Spec == InitRegistering /\ [][Next]_vars
SpecSeq == InitLoggedIn /\ [][NextSeq]_vars
SpecAuth == InitEmpty /\ [][NextAuth]_vars
SpecLedger == InitTwoAccounts /\ [][NextLedger]_vars
SpecUpload == InitLoggedIn /\ [][NextUpload]_vars
SpecSession == InitEmpty /\ [][NextSession]_vars
SpecPair == InitTwoRegistering /\ [][Next]_vars

(***************************************************************************)
(* Properties.                                                             *)
(***************************************************************************)
Done(r, op) == pc[r] = "done" /\ req[r].op = op
RowExists(table, userID) == \E i \in DOMAIN table : table[i].user_id = userID
AllThreeExist(subTables, userID) == \A k \in KindSet : RowExists(subTables[k], userID)
ExistingKinds(subTables, userID) == {k \in KindSet : RowExists(subTables[k], userID)}

\* C1: for every existing account the status projection has each has_X flag
\* true exactly when a sub-record of that kind exists, is_complete equal to
\* the conjunction of the three flags, and status "old" exactly when
\* is_complete; a Status response carries a projection of that shape whose
\* true flags are backed by existing sub-records.
C1_StatusIsConjunction ==
  /\ \A i \in DOMAIN users :
       LET s == GetAccountStatus(users[i].id)
       IN  /\ s.has_personal_details = RowExists(sub["personal"], users[i].id)
           /\ s.has_business_details = RowExists(sub["business"], users[i].id)
           /\ s.has_trade_license = RowExists(sub["trade"], users[i].id)
           /\ s.is_complete = (s.has_personal_details /\ s.has_business_details
                               /\ s.has_trade_license)
           /\ s.status = (IF s.is_complete THEN "old" ELSE "new")
  /\ \A r \in Workers :
       Done(r, "Status") /\ resp[r].code = 200 =>
         LET s == resp[r].data
         IN  /\ s.is_complete = (s.has_personal_details /\ s.has_business_details
                                 /\ s.has_trade_license)
             /\ s.status = (IF s.is_complete THEN "old" ELSE "new")
             /\ s.has_personal_details => RowExists(sub["personal"], req[r].user_id)
             /\ s.has_business_details => RowExists(sub["business"], req[r].user_id)
             /\ s.has_trade_license => RowExists(sub["trade"], req[r].user_id)

\* a Status call has answered "new" for an account with two of the three
\* sub-records
C1_Witness ==
  \E r \in Workers :
    /\ Done(r, "Status") /\ resp[r].code = 200
    /\ resp[r].data.status = "new"
    /\ resp[r].data.has_personal_details /\ resp[r].data.has_business_details
    /\ ~resp[r].data.has_trade_license
    /\ ~RowExists(sub["trade"], req[r].user_id)

\* C2: a Submit that arrives for an account that lacks at least one of the
\* three sub-records is answered 400 with the registration-incomplete
\* message, whatever its amount, purpose and repayment period, and adds no
\* financing request (requests one after the other, storage errors aside).
C2_SubmitGated ==
  \A r \in Workers :
    /\ Done(r, "Submit")
    /\ ~AllThreeExist(pre[r].sub, req[r].user_id)
    /\ resp[r].code # 500
    => /\ resp[r].code = 400
       /\ resp[r].message = IncompleteMessage
       /\ financing = pre[r].financing

\* a well-formed Submit was refused for an account with two sub-records
C2_Witness ==
  \E r \in Workers :
    /\ Done(r, "Submit")
    /\ Cardinality(ExistingKinds(pre[r].sub, req[r].user_id)) = 2
    /\ FinancingError(req[r]) = ""
    /\ resp[r].code = 400 /\ resp[r].message = IncompleteMessage
    /\ financing = <<>>

\* C3: after a successful Upsert that follows an earlier one for the same
\* account and kind, the account has exactly one sub-record of that kind and
\* each of its fields holds the value of the later payload.
C3_SecondPayloadWins ==
  \A r \in Workers :
    Done(r, "Upsert") /\ resp[r].code = 200 =>
      LET rows == SubRows(req[r].kind, req[r].user_id)
      IN  /\ Cardinality(rows) = 1
          /\ \A i \in rows : \A f \in DOMAIN req[r].data :
               sub[req[r].kind][i].data[f] = req[r].data[f]

\* the second Upsert replaced a sub-record that differed in every field
C3_Witness ==
  \E r \in Workers :
    /\ Done(r, "Upsert") /\ resp[r].code = 200
    /\ \E i \in DOMAIN pre[r].sub[req[r].kind] :
         /\ pre[r].sub[req[r].kind][i].user_id = req[r].user_id
         /\ \A f \in DOMAIN req[r].data :
              pre[r].sub[req[r].kind][i].data[f] # req[r].data[f]
    /\ \E i \in SubRows(req[r].kind, req[r].user_id) :
         sub[req[r].kind][i].data = req[r].data

\* C4: there is at most one sub-record of each kind per account in every
\* reachable state, also when Upserts for the same account and kind
\* interleave between their SELECT and their INSERT or UPDATE.
C4_AtMostOneSubRecord ==
  \A k \in KindSet : \A i \in DOMAIN users :
    Cardinality(SubRows(k, users[i].id)) <= 1

\* what a read of the sub-record may return in the given tables
DataOf(subTables, kind, userID) ==
  {subTables[kind][i].data :
     i \in {j \in DOMAIN subTables[kind] : subTables[kind][j].user_id = userID}}

\* the write step of a CreateOrUpdate of worker r completes without error
Wrote(r) ==
  /\ pc[r] = "CreateOrUpdateExec"
  /\ pc'[r] # "CreateOrUpdateExec"
  /\ resp'[r].code # 500

\* C5: when Upserts for the same account and kind race, each write step
\* completes without error and right after it a read of the sub-record
\* returns, in all fields, the payload of that (last) write.
C5_LastWriteWins ==
  [][\A r \in Workers :
       pc[r] = "CreateOrUpdateExec" /\ pc'[r] # "CreateOrUpdateExec" /\ faults' = faults =>
         /\ Wrote(r)
         /\ DataOf(sub', CurrentKind(r), Subject(r)) = {CurrentData(r)}]_vars

\* models.VerifyOTP of worker r returns the challenge it has marked verified
Redeemed(r) == pc[r] = "VerifyOTPUpdate" /\ pc'[r] = "GetUserByEmail"
\* worker r gets the answer to the lookup of its Redeem from the store
LookedUp(r) == pc[r] = "VerifyOTPSelect" /\ pc'[r] # "VerifyOTPSelect" /\ faults' = faults
RedeemEmails == {EmailA, EmailB}
RedeemCodes == {DefaultOTP, OtherOTP}

\* C6: once a Redeem(email, code) has succeeded, a Redeem with the same
\* (email, code) fails with 401, whatever IssueChallenge and Redeem
\* operations came before the redemption: right after the redemption no
\* redeemable challenge matches (email, code).
C6_SingleUse ==
  [][\A r \in Workers :
       Redeemed(r) => NoValidChallenge(req[r].email, req[r].otp)']_vars

\* C6 as amended: once a Redeem(email, code) has succeeded on the only
\* unverified challenge matching (email, code), no redeemable challenge
\* matches (email, code); none appears until a further challenge is issued;
\* and a Redeem whose lookup finds no redeemable challenge is answered 401
\* and marks nothing.
C6_SingleUsePerChallenge ==
  [][/\ \A r \in Workers :
          /\ Redeemed(r)
          /\ UnverifiedMatches(req[r].email, req[r].otp) \subseteq {loc[r].otp_id}
          => NoValidChallenge(req[r].email, req[r].otp)'
     /\ \A e \in RedeemEmails : \A c \in RedeemCodes :
          NoValidChallenge(e, c) /\ Len(otps') = Len(otps) => NoValidChallenge(e, c)'
     /\ \A r \in Workers :
          LookedUp(r) /\ NoValidChallenge(req[r].email, req[r].otp)
          => /\ pc'[r] = "done"
             /\ resp'[r].code = 401
             /\ otps' = otps]_vars

\* a second Redeem of the same (email, code), arrived after the first one
\* had marked the only challenge, was answered 401 before the expiry
C6_Witness ==
  \E r1 \in Workers : \E r2 \in Workers \ {r1} :
    /\ Done(r1, "VerifyOTP") /\ resp[r1].code = 200
    /\ Done(r2, "VerifyOTP") /\ resp[r2].code = 401
    /\ req[r2].email = req[r1].email /\ req[r2].otp = req[r1].otp
    /\ Len(otps) = 1
    /\ loc[r1].otp_id = 1
    /\ Len(pre[r2].otps) = 1 /\ pre[r2].otps[1].verified
    /\ now <= otps[1].created_at + OTPExpiryMinutes

\* C7: a Redeem whose lookup matches a challenge issued more than 10
\* minutes ago is answered 401 although email and code are right (500 when
\* the lookup itself fails in the store), and the call leaves every
\* challenge, the matched one included, as it was.
C7_ExpiredRedeemFails ==
  [][\A r \in Workers :
       LET rows == UnverifiedMatches(req[r].email, req[r].otp)
       IN  /\ pc[r] = "VerifyOTPSelect"
           /\ pc'[r] # "VerifyOTPSelect"
           /\ rows # {}
           /\ now > otps[MostRecent(rows)].created_at + OTPExpiryMinutes
           => /\ pc'[r] = "done"
              /\ resp'[r].code \in {401, 500}
              /\ faults' = faults => /\ resp'[r].code = 401
                                     /\ resp'[r].message = "Invalid or expired OTP"
              /\ otps' = otps
              /\ tokens' = tokens]_vars

\* a Redeem with the right email and code was answered 401 while the
\* challenge, issued before the request arrived, is expired and still
\* unverified
C7_Witness ==
  \E r \in Workers : \E i \in DOMAIN otps :
    /\ Done(r, "VerifyOTP") /\ resp[r].code = 401
    /\ i \in DOMAIN pre[r].otps
    /\ otps[i].email = req[r].email /\ otps[i].otp = req[r].otp
    /\ otps[i].verified = FALSE
    /\ now > otps[i].created_at + OTPExpiryMinutes
    /\ \A j \in DOMAIN otps : otps[j].verified = FALSE

\* C8: one challenge yields at most one successful redemption: no two
\* Redeem requests succeed on the same challenge, also when they interleave
\* between the lookup and the update.
C8_AtMostOneRedemption ==
  \A r1 \in Workers : \A r2 \in Workers \ {r1} :
    /\ Done(r1, "VerifyOTP") /\ resp[r1].code = 200
    /\ Done(r2, "VerifyOTP") /\ resp[r2].code = 200
    => loc[r1].otp_id # loc[r2].otp_id

\* C9: after any FullRegistration call, one ended by a storage error at its
\* second or third upsert included, either all three sub-records of the
\* account carry the call's payload or the call changed none of the three.
C9_AllOrNothing ==
  \A r \in Workers :
    Done(r, "FullRegistration") =>
      \/ \A k \in KindSet : DataOf(sub, k, req[r].user_id) = {req[r].data[k]}
      \/ sub = pre[r].sub

\* the constraints on a FullRegistration payload, in the order in which the
\* request is validated
FieldConstraints(f) ==
  << [unmet |-> f.personal.full_name = "", message |-> "Full name is required"],
     [unmet |-> f.personal.email = Empty, message |-> "Email is required"],
     [unmet |-> ~ValidateEmail(f.personal.email), message |-> "Invalid email format"],
     [unmet |-> f.personal.phone_number = Empty, message |-> "Phone number is required"],
     [unmet |-> ~ValidatePhone(f.personal.phone_number),
      message |-> "Invalid phone number format"],
     [unmet |-> f.business.business_name = "", message |-> "Business name is required"],
     [unmet |-> f.business.trade_license_number = "",
      message |-> "Trade license number is required"],
     [unmet |-> f.trade.filename = "", message |-> "Filename is required"],
     [unmet |-> f.trade.file_url = "",
      message |-> "File URL is required (or upload a file)"] >>
Unmet(f) == {i \in DOMAIN FieldConstraints(f) : FieldConstraints(f)[i].unmet}
FirstUnmet(f) == FieldConstraints(f)[CHOOSE i \in Unmet(f) : \A j \in Unmet(f) : i <= j]

\* C10: a FullRegistration whose payload leaves a constraint unmet is
\* answered 400 with the message of the first unmet constraint in the order
\* full name, email, email format, phone, phone format, business name,
\* trade license number, filename, file URL; no upsert runs, so the
\* account's sub-records and its status are as they were before the call.
C10_FirstUnmetConstraint ==
  \A r \in Workers :
    Done(r, "FullRegistration") /\ Unmet(req[r].data) # {} =>
      /\ resp[r].code = 400
      /\ resp[r].message = FirstUnmet(req[r].data).message
      /\ sub = pre[r].sub
      /\ financing = pre[r].financing
      /\ \A k \in KindSet :
           HasSubRecord(k, req[r].user_id) = RowExists(pre[r].sub[k], req[r].user_id)

\* a FullRegistration whose only unmet constraint is the last one (file
\* URL) was refused for an account that had saved its personal details
C10_Witness ==
  \E r \in Workers :
    /\ Done(r, "FullRegistration")
    /\ Unmet(req[r].data) = {9}
    /\ resp[r].code = 400
    /\ resp[r].message = "File URL is required (or upload a file)"
    /\ DataOf(sub, "personal", req[r].user_id) = {PersonalA}
    /\ ~HasSubRecord("trade", req[r].user_id)

\* C11: a FullRegistration with three valid payloads that succeeds, whatever
\* sub-records the account had before, reports status "old" in its own
\* response and leaves all three sub-records in place, and a Status call
\* that arrives when all three exist returns status "old", is_complete true.
C11_OldAfterFullRegistration ==
  \A r \in Workers :
    /\ Done(r, "FullRegistration") /\ resp[r].code = 200
       => /\ resp[r].data.status = "old"
          /\ AllThreeExist(sub, req[r].user_id)
          /\ GetAccountStatus(req[r].user_id).status = "old"
          /\ GetAccountStatus(req[r].user_id).is_complete
    /\ Done(r, "Status") /\ resp[r].code = 200 /\ AllThreeExist(pre[r].sub, req[r].user_id)
       => /\ resp[r].data.status = "old"
          /\ resp[r].data.is_complete

\* a FullRegistration succeeded with status "old" for an account that had
\* saved its personal details only
C11_Witness ==
  \E r \in Workers :
    /\ Done(r, "FullRegistration") /\ resp[r].code = 200
    /\ resp[r].data.status = "old"
    /\ ExistingKinds(pre[r].sub, req[r].user_id) = {"personal"}
    /\ \A k \in KindSet : DataOf(sub, k, req[r].user_id) = {req[r].data[k]}

\* the challenges for the request of worker r that were unverified when it
\* arrived, are within their 10 minutes now, and were not redeemed by
\* another request since
OpenChallenges(r) ==
  {i \in DOMAIN pre[r].otps :
     /\ pre[r].otps[i].email = req[r].email
     /\ pre[r].otps[i].otp = req[r].otp
     /\ pre[r].otps[i].verified = FALSE
     /\ now <= pre[r].otps[i].created_at + OTPExpiryMinutes
     /\ otps[i].verified => loc[r].otp_id = i}

\* C12: a Redeem(email, code) that follows an IssueChallenge(email) of a so
\* far unseen email, within the expiry window and with the issued code,
\* succeeds (storage errors aside), returns the one account that
\* IssueChallenge created for the email, issues its credential and reports
\* account_status "new".
C12_FirstLogin ==
  \A r \in Workers :
    Done(r, "VerifyOTP") /\ OpenChallenges(r) # {} /\ resp[r].code # 500 =>
      /\ resp[r].code = 200
      /\ Cardinality(UsersByEmail(req[r].email)) = 1
      /\ \A i \in UsersByEmail(req[r].email) : resp[r].data.user_id = users[i].id
      /\ resp[r].data.email = req[r].email
      /\ resp[r].data.account_status = "new"
      /\ [user_id |-> resp[r].data.user_id, email |-> req[r].email] \in tokens

\* send-otp for a new email, then verify-otp with the issued code: 200 and
\* account_status "new" for the only account
C12_Witness ==
  \E r \in Workers :
    /\ Done(r, "VerifyOTP") /\ resp[r].code = 200
    /\ OpenChallenges(r) = {1}
    /\ Len(users) = 1 /\ users[1].email = req[r].email
    /\ resp[r].data.user_id = 1
    /\ resp[r].data.account_status = "new"
    /\ otps[1].verified

\* a text is a decimal numeral: an optional sign, digits, at most one point
DecimalNumeral(s) ==
  LET body == IF Len(s) > 0 /\ s[1] \in {"+", "-"} THEN Tail(s) ELSE s
  IN  /\ \A k \in DOMAIN body : body[k] \in Digits \cup {"."}
      /\ Cardinality({k \in DOMAIN body : body[k] = "."}) <= 1
      /\ \E k \in DOMAIN body : body[k] \in Digits
\* ... of a value above zero
PositiveDecimal(s) ==
  /\ DecimalNumeral(s)
  /\ s[1] # "-"
  /\ \E k \in DOMAIN s : s[k] \in Digits \ {"0"}
\* a text is a whole number of months above zero
PositiveInteger(s) == PositiveDecimal(s) /\ \A k \in DOMAIN s : s[k] # "."

InvalidAmountMessage == "Invalid amount. Must be a positive number"

\* C13: a Submit of a complete account whose amount is not a positive number
\* is answered 400 ("Invalid amount. Must be a positive number" when an
\* amount was given) and leaves the ledger as it was; the same for an empty
\* purpose and for a repayment period that is not a positive integer.
C13_InvalidSubmitRejected ==
  \A r \in Workers :
    /\ Done(r, "Submit")
    /\ AllThreeExist(pre[r].sub, req[r].user_id)
    /\ resp[r].code # 500
    /\ \/ ~PositiveDecimal(req[r].amount)
       \/ req[r].purpose = ""
       \/ ~PositiveInteger(req[r].repayment_period)
    => /\ resp[r].code = 400
       /\ financing = pre[r].financing
       /\ req[r].amount # Empty /\ ~PositiveDecimal(req[r].amount)
          => resp[r].message = InvalidAmountMessage

\* the constraints on the fields of a Submit, in the order amount, purpose,
\* repayment period
SubmitConstraints(q) ==
  << [unmet |-> q.amount = Empty, message |-> "Amount is required"],
     [unmet |-> ~PositiveDecimal(q.amount), message |-> InvalidAmountMessage],
     [unmet |-> q.purpose = "", message |-> "Purpose is required"],
     [unmet |-> q.repayment_period = Empty, message |-> "Repayment period is required"],
     [unmet |-> ~PositiveInteger(q.repayment_period),
      message |-> "Invalid repayment period. Must be a positive number of months"] >>
UnmetOfSubmit(q) == {i \in DOMAIN SubmitConstraints(q) : SubmitConstraints(q)[i].unmet}
FirstUnmetOfSubmit(q) ==
  SubmitConstraints(q)[CHOOSE i \in UnmetOfSubmit(q) : \A j \in UnmetOfSubmit(q) : i <= j]

\* C14: Submit applies the completion gate first (an incomplete account gets
\* the registration-incomplete error even when its fields are invalid), then
\* checks amount, purpose and repayment period in that order: the error
\* names the first violated field.
C14_SubmitCheckOrder ==
  \A r \in Workers :
    Done(r, "Submit") /\ resp[r].code # 500 =>
      IF ~AllThreeExist(pre[r].sub, req[r].user_id)
      THEN resp[r].code = 400 /\ resp[r].message = IncompleteMessage
      ELSE UnmetOfSubmit(req[r]) # {} =>
             /\ resp[r].code = 400
             /\ resp[r].message = FirstUnmetOfSubmit(req[r]).message

\* C15: a successful Submit of a complete account appends exactly one
\* request owned by the account, with the submitted amount, purpose and
\* repayment period and status "pending", and returns it; the requests
\* stored before are unchanged; and a valid Submit of a complete account
\* succeeds however many requests the account has (storage errors aside).
C15_SubmitAppends ==
  \A r \in Workers :
    /\ Done(r, "Submit") /\ resp[r].code = 201 =>
         /\ Len(financing) = Len(pre[r].financing) + 1
         /\ SubSeq(financing, 1, Len(pre[r].financing)) = pre[r].financing
         /\ LET new == financing[Len(financing)]
            IN  /\ new.user_id = req[r].user_id
                /\ new.amount = ParseFloat(req[r].amount)
                /\ new.purpose = req[r].purpose
                /\ new.repayment_period = Atoi(req[r].repayment_period).value
                /\ new.status = "pending"
                /\ resp[r].data = [id |-> Len(financing)] @@ new
    /\ /\ Done(r, "Submit") /\ resp[r].code # 500
       /\ AllThreeExist(pre[r].sub, req[r].user_id)
       /\ PositiveDecimal(req[r].amount)
       /\ req[r].purpose # ""
       /\ PositiveInteger(req[r].repayment_period)
       => resp[r].code = 201

\* a second Submit of the account succeeded and left the first request as
\* it was
C15_Witness ==
  \E r \in Workers :
    /\ Done(r, "Submit") /\ resp[r].code = 201
    /\ Len(pre[r].financing) = 1
    /\ pre[r].financing[1].user_id = req[r].user_id
    /\ Len(financing) = 2
    /\ financing[1] = pre[r].financing[1]
    /\ financing[2].status = "pending"
    /\ resp[r].data.id = 2

\* the requests of an account in a ledger
OwnedIn(ledger, userID) == {i \in DOMAIN ledger : ledger[i].user_id = userID}

\* C16: List(account) returns every financing request owned by the account
\* and none owned by another account, each as it is stored and once, the
\* most recently created first; an account with no request gets an empty
\* list, and List answers an error only when the store fails.
C16_ListOwnNewestFirst ==
  \A r \in Workers :
    Done(r, "List") /\ resp[r].code # 500 =>
      LET listed == resp[r].data
          owned == OwnedIn(pre[r].financing, req[r].user_id)
      IN  /\ resp[r].code = 200
          /\ owned = {} => listed = <<>>
          /\ {listed[k].id : k \in DOMAIN listed} = owned
          /\ Len(listed) = Cardinality(owned)
          /\ \A k \in DOMAIN listed :
               listed[k] = [id |-> listed[k].id] @@ pre[r].financing[listed[k].id]
          /\ \A k, l \in DOMAIN listed : k < l => listed[k].id > listed[l].id
          /\ financing = pre[r].financing
\* C17: Get(account, id), for an id that is a well-formed identifier, fails
\* with not-found (404) exactly when no request has that id, fails with
\* forbidden (403) exactly when the request exists and is owned by another
\* account, and otherwise returns the request as it is stored.
C17_GetByOwner ==
  \A r \in Workers :
    Done(r, "Get") /\ req[r].id.form = "uuid" /\ resp[r].code # 500 =>
      LET id == req[r].id.value
          exists == id \in DOMAIN pre[r].financing
      IN  /\ resp[r].code \in {200, 403, 404}
          /\ resp[r].code = 404 <=> ~exists
          /\ resp[r].code = 403 <=> exists /\ pre[r].financing[id].user_id # req[r].user_id
          /\ resp[r].code = 200 => resp[r].data = [id |-> id] @@ pre[r].financing[id]
          /\ resp[r].code # 200 => resp[r].data = NoData
          /\ financing = pre[r].financing
C17_Witness ==
  \E r \in Workers :
    /\ Done(r, "Get") /\ req[r].id.form = "uuid"
    /\ resp[r].code = 403
    /\ req[r].id.value \in DOMAIN financing
    /\ financing[req[r].id.value].user_id # req[r].user_id
    /\ OwnedIn(financing, req[r].user_id) # {}

C19_StatusRecomputed ==
  [][/\ \A r \in Workers :
          (Done(r, "Status") /\ resp[r].code = 200)' =>
            LET s == resp'[r].data
                has == [k \in KindSet |-> RowExists(pre'[r].sub[k], req'[r].user_id)]
            IN  /\ s.has_personal_details = has["personal"]
                /\ s.has_business_details = has["business"]
                /\ s.has_trade_license = has["trade"]
                /\ s.is_complete = (\A k \in KindSet : has[k])
                /\ s.status = (IF s.is_complete THEN "old" ELSE "new")
     /\ \A r \in Workers :
          /\ Done(r, "Upsert") /\ resp[r].code = 200
          /\ req'[r].op = "Status" /\ req'[r].user_id = req[r].user_id
          => RowExists(pre'[r].sub[req[r].kind], req[r].user_id)
     /\ \A r \in Workers :
          req'[r].op = "Status" /\ pc'[r] # pc[r] => UNCHANGED tables
    ]_vars
\* a Status call made after the business details were saved, and nothing
\* else, has answered that exactly the business details are present
C19_Witness ==
  \E r \in Workers :
    /\ Done(r, "Status") /\ resp[r].code = 200
    /\ resp[r].data.has_business_details
    /\ ~resp[r].data.has_personal_details /\ ~resp[r].data.has_trade_license
    /\ ~resp[r].data.is_complete
    /\ RowExists(sub["business"], req[r].user_id)
    /\ pre[r].sub = sub

\* the header is "Bearer", one space, and one more item
BearerForm(header) ==
  Len(header) = 3 /\ header[1].text = "Bearer" /\ header[2].text = " "
  /\ header[3].text # " "
\* the item is a token signed by this service that has not expired at time t
GoodToken(item, t) ==
  /\ item.jwt.alg = "HS256" /\ item.jwt.key = JWTSecret
  /\ item.jwt.expires_at > t

\* C20: a request to a protected endpoint whose Authorization header is
\* absent, is not "Bearer <token>", or carries a token that is invalid or
\* expired is answered with 401 at once, the handler is never run for it,
\* and its arrival changes no account, challenge, sub-record or financing
\* request.
C20_BadCredentialRejected ==
  [][\A r \in Workers :
       LET header == req'[r].header
       IN  /\ pc'[r] # "idle" /\ (pc'[r] # pc[r] \/ req'[r] # req[r])
           /\ header = <<>> \/ ~BearerForm(header) \/ ~GoodToken(header[3], now)
           => /\ req'[r].op = "Unauthorized"
              /\ pc'[r] = "done"
              /\ resp'[r].code = 401 /\ resp'[r].data = NoData
              /\ UNCHANGED <<tables, tokens>>
    ]_vars
\* an expired token was presented by an account that had saved its personal
\* details, and the answer was 401
C20_Witness ==
  \E r \in Workers :
    /\ Done(r, "Unauthorized") /\ resp[r].code = 401
    /\ resp[r].message = "Invalid or expired token"
    /\ BearerForm(req[r].header)
    /\ req[r].header[3].jwt.key = JWTSecret
    /\ req[r].header[3].jwt.expires_at <= now
    /\ RowExists(sub["personal"], req[r].header[3].jwt.user_id)
    /\ pre[r].sub = sub

C22_LedgerAppendOnly ==
  [][/\ Len(financing') >= Len(financing)
     /\ Len(financing') <= Len(financing) + 1
     /\ \A i \in DOMAIN financing :
          /\ financing'[i].user_id = financing[i].user_id
          /\ financing'[i].amount = financing[i].amount
          /\ financing'[i].purpose = financing[i].purpose
          /\ financing'[i].repayment_period = financing[i].repayment_period
          /\ financing'[i].status = financing[i].status
    ]_vars
\* an account that had two requests, with one of another account between
\* them, has been given a further one and then read its ledger
C22_Witness ==
  \E r \in Workers :
    /\ Done(r, "List") /\ resp[r].code = 200
    /\ Len(financing) = MaxFinancing
    /\ financing[1].user_id = req[r].user_id
    /\ financing[2].user_id # req[r].user_id
    /\ financing[Len(financing)].user_id = req[r].user_id
    /\ pre[r].financing = financing

\* the unverified challenges of an email in a table of challenges
UnverifiedOf(table, email) ==
  {i \in DOMAIN table : table[i].email = email /\ table[i].verified = FALSE}

\* C23: the INSERT of an IssueChallenge leaves every earlier challenge as it
\* was and adds one unverified challenge for its email, so k IssueChallenge
\* calls with no redemption leave k unverified challenges; the lookup of a
\* Redeem(email, code) that goes on to redeem picks, of the unverified
\* challenges matching (email, code), the one created last; and its UPDATE
\* marks that challenge verified and changes no other challenge.
C23_RedeemsMostRecent ==
  [][/\ \A r \in Workers :
          pc[r] = "OTPCreate" /\ pc'[r] = "done" /\ resp'[r].code = 200 =>
            /\ Len(otps') = Len(otps) + 1
            /\ SubSeq(otps', 1, Len(otps)) = otps
            /\ otps'[Len(otps')].email = req[r].email
            /\ otps'[Len(otps')].verified = FALSE
            /\ Cardinality(UnverifiedOf(otps', req[r].email))
                 = Cardinality(UnverifiedOf(otps, req[r].email)) + 1
     /\ \A r \in Workers :
          pc[r] = "VerifyOTPSelect" /\ pc'[r] = "VerifyOTPUpdate" =>
            LET picked == loc'[r].otp_id
                matches == {i \in UnverifiedOf(otps, req[r].email) : otps[i].otp = req[r].otp}
            IN  /\ picked \in matches
                /\ \A i \in matches :
                     i <= picked /\ otps[i].created_at <= otps[picked].created_at
     /\ \A r \in Workers :
          Redeemed(r) =>
            /\ otps'[loc[r].otp_id].verified
            /\ Len(otps') = Len(otps)
            /\ \A i \in DOMAIN otps : i # loc[r].otp_id => otps'[i] = otps[i]
            /\ otps'[loc[r].otp_id] = [otps[loc[r].otp_id] EXCEPT !.verified = TRUE]
    ]_vars
\* two challenges were issued for one email with no redemption between
\* them, and a Redeem then marked the later one and left the earlier one
\* unverified
C23_Witness ==
  \E r \in Workers :
    /\ Done(r, "VerifyOTP") /\ resp[r].code = 200
    /\ Len(otps) = 2
    /\ otps[1].email = req[r].email /\ otps[2].email = req[r].email
    /\ otps[1].otp = req[r].otp /\ otps[2].otp = req[r].otp
    /\ Len(pre[r].otps) = 2
    /\ ~pre[r].otps[1].verified /\ ~pre[r].otps[2].verified
    /\ loc[r].otp_id = 2
    /\ ~otps[1].verified /\ otps[2].verified

\* the projection that belongs to a set of sub-record kinds
StatusOfKinds(userID, email, kinds) ==
  [user_id |-> userID, email |-> email,
   status |-> IF kinds = KindSet THEN "old" ELSE "new",
   has_personal_details |-> "personal" \in kinds,
   has_business_details |-> "business" \in kinds,
   has_trade_license |-> "trade" \in kinds,
   is_complete |-> kinds = KindSet]

\* C24: the completion projection does not depend on the order of the calls:
\* each successful save of a sub-record adds its kind to the set of kinds the
\* account has, whatever was saved before and however often, no other step
\* changes that set, and the answer of Status is determined by that set
\* alone; so two sequences of successful Upserts with the same kinds are
\* followed by the same has_personal, has_business, has_trade_license,
\* is_complete and status.
C24_OrderIndependent ==
  [][/\ \A i \in DOMAIN users :
          LET id == users[i].id
              saved == {CurrentKind(r) : r \in {w \in Workers : Wrote(w) /\ Subject(w) = id}}
          IN  ExistingKinds(sub', id) = ExistingKinds(sub, id) \cup saved
     /\ \A r \in Workers :
          (Done(r, "Status") /\ resp[r].code = 200)' =>
            \E i \in DOMAIN users :
              /\ users[i].id = req'[r].user_id
              /\ resp'[r].data = StatusOfKinds(users[i].id, users[i].email,
                                               ExistingKinds(sub', users[i].id))
    ]_vars
\* Status has answered for an account that holds personal details and a
\* trade license and no business details
C24_Witness ==
  \E r \in Workers :
    /\ Done(r, "Status") /\ resp[r].code = 200
    /\ ExistingKinds(sub, req[r].user_id) = {"personal", "trade"}
    /\ resp[r].data.has_personal_details /\ resp[r].data.has_trade_license
    /\ ~resp[r].data.has_business_details
    /\ ~resp[r].data.is_complete /\ resp[r].data.status = "new"

\* C25: in a FullRegistration that carries a trade-license file, every
\* upsert runs after the upload has yielded its URL, the trade-license
\* upsert stores that URL as the file reference, and a call that succeeds
\* leaves that URL in the account's trade license; when the upload fails the
\* call is answered 500 and no sub-record has changed.
C25_UploadBeforeUpsert ==
  [][/\ \A r \in Workers :
          Wrote(r) /\ HasFile(req[r]) =>
            /\ loc[r].file_url # ""
            /\ CurrentKind(r) = "trade" =>
                 DataOf(sub', "trade", req[r].user_id)
                   = {[filename |-> req[r].file.filename, file_url |-> loc[r].file_url]}
     /\ \A r \in Workers :
          (Done(r, "FullRegistration") /\ HasFile(req[r]) /\ resp[r].code = 200)' =>
            /\ loc'[r].file_url # ""
            /\ DataOf(sub', "trade", req'[r].user_id)
                 = {[filename |-> req'[r].file.filename, file_url |-> loc'[r].file_url]}
     /\ \A r \in Workers :
          pc[r] = "UploadFileToSupabase" /\ faults' # faults /\ pc'[r] # pc[r] =>
            /\ pc'[r] = "done"
            /\ resp'[r].code = 500
            /\ sub' = pre[r].sub
            /\ loc'[r].file_url = ""
    ]_vars
\* a FullRegistration with a file has succeeded for an account whose trade
\* license held another reference before, and the reference is now the URL
\* of the upload
C25_Witness ==
  \E r \in Workers :
    /\ Done(r, "FullRegistration") /\ HasFile(req[r]) /\ resp[r].code = 200
    /\ DataOf(pre[r].sub, "trade", req[r].user_id) = {TradeB}
    /\ loc[r].file_url = PublicURL(req[r].file)
    /\ DataOf(sub, "trade", req[r].user_id)
         = {[filename |-> req[r].file.filename, file_url |-> loc[r].file_url]}

\* the flag of a status projection for a sub-record kind
FlagOf(status, kind) ==
  CASE kind = "personal" -> status.has_personal_details
    [] kind = "business" -> status.has_business_details
    [] kind = "trade" -> status.has_trade_license

\* C26: completion is monotonic in every interleaving: no step removes a
\* sub-record, so a kind that an account has it keeps; a Status call that
\* arrives when the account has a kind reports that kind as present, and one
\* that arrives when the account has all three returns "old"; hence no flag
\* goes from true back to false and "old" is never followed by "new".
C26_CompletionMonotonic ==
  [][/\ \A k \in KindSet : \A i \in DOMAIN users :
          /\ RowExists(sub[k], users[i].id) => RowExists(sub'[k], users[i].id)
          /\ Len(sub'[k]) >= Len(sub[k])
     /\ \A r \in Workers :
          (Done(r, "Status") /\ resp[r].code = 200)' =>
            /\ \A k \in KindSet :
                 RowExists(pre'[r].sub[k], req'[r].user_id) => FlagOf(resp'[r].data, k)
            /\ AllThreeExist(pre'[r].sub, req'[r].user_id) =>
                 resp'[r].data.status = "old" /\ resp'[r].data.is_complete
    ]_vars
\* a Status call that arrived after a complete account had saved its
\* personal details once more has returned "old"
C26_Witness ==
  \E r, s \in Workers :
    /\ Done(s, "Upsert") /\ resp[s].code = 200 /\ loc[s].existing
    /\ AllThreeExist(pre[s].sub, req[s].user_id)
    /\ Done(r, "Status") /\ resp[r].code = 200 /\ req[r].user_id = req[s].user_id
    /\ pre[r].sub = sub /\ pre[r].sub # pre[s].sub
    /\ resp[r].data.status = "old"

\* C27: in every reachable state each financing request of the ledger is
\* owned by an account that has all three sub-records in that state, also
\* when Upserts run between the completion check of a Submit and its INSERT.
C27_RequestsOfCompleteAccounts ==
  \A i \in DOMAIN financing :
    /\ UsersByID(financing[i].user_id) # {}
    /\ AllThreeExist(sub, financing[i].user_id)
    /\ GetAccountStatus(financing[i].user_id).is_complete
\* a Submit that arrived while the account was incomplete has created a
\* request, an Upsert having saved the missing sub-record before the Submit
\* read it
C27_Witness ==
  \E r, s \in Workers :
    /\ Done(r, "Submit") /\ resp[r].code = 201
    /\ ~AllThreeExist(pre[r].sub, req[r].user_id)
    /\ req[s].op = "Upsert" /\ req[s].user_id = req[r].user_id
    /\ ~RowExists(pre[r].sub[req[s].kind], req[r].user_id)
    /\ Len(financing) = 1 /\ financing[1].user_id = req[r].user_id
    /\ AllThreeExist(sub, req[r].user_id)

\* C28: no step removes an account or changes its id, and in every reachable
\* state each issued credential carries the id and the email of an existing
\* account; so GetAccountStatus finds the account of every verify-otp,
\* Status and FullRegistration call: Status is never answered 404 and no
\* handler dereferences a nil status.
C28_CredentialResolves ==
  [][/\ Len(users') >= Len(users)
     /\ SubSeq(users', 1, Len(users)) = users
     /\ \A t \in tokens' :
          \E i \in DOMAIN users' : users'[i].id = t.user_id /\ users'[i].email = t.email
     /\ tokens \subseteq tokens'
     /\ \A r \in Workers :
          /\ pc[r] = "GetUserByID" /\ pc'[r] # pc[r] /\ faults' = faults
               => loc'[r].found /\ pc'[r] = "GetAccountStatus"
          /\ pc'[r] = "done" => resp'[r].code # 0
          /\ (Done(r, "Status"))' => resp'[r].code # 404
    ]_vars
\* two accounts hold credentials, and a FullRegistration of the second has
\* read its status and succeeded
C28_Witness ==
  \E r \in Workers :
    /\ Cardinality(tokens) = 2 /\ Len(users) = 2
    /\ Done(r, "FullRegistration") /\ resp[r].code = 200
    /\ req[r].user_id = 2 /\ loc[r].found
    /\ \E t \in tokens : t.user_id = req[r].user_id

\* the step ends a verify-otp of worker r with one of Redeem's failures
RedeemFails(r) ==
  /\ pc'[r] = "done" /\ (pc[r] # "done" \/ started' # started)
  /\ req'[r].op = "VerifyOTP"
  /\ resp'[r].code \in {400, 401}
\* C29: a verify-otp answered 400 (malformed code) or 401 (no unverified
\* challenge matches, or the match has expired) never ran the UPDATE, and
\* the step that answers it changes no challenge, no account and no
\* credential; a flag can only be set by the UPDATE of a request that matched
\* a challenge, and a flag that is set stays set in every later state.
C29_FailedRedeemChangesNothing ==
  [][/\ \A r \in Workers :
          /\ RedeemFails(r) =>
               /\ otps' = otps /\ users' = users /\ tokens' = tokens
               /\ loc'[r].otp_id = LocInit.otp_id
          /\ pc'[r] # pc[r] /\ otps' # otps /\ Len(otps') = Len(otps)
               => pc[r] = "VerifyOTPUpdate" /\ loc[r].otp_id # LocInit.otp_id
                  /\ pc'[r] \notin {"done", "VerifyOTPSelect"}
     /\ Len(otps') >= Len(otps)
     /\ \A i \in DOMAIN otps :
          /\ otps[i].verified => otps'[i].verified
          /\ [otps'[i] EXCEPT !.verified = FALSE] = [otps[i] EXCEPT !.verified = FALSE]
    ]_vars
\* a verify-otp whose challenge had expired was answered 401 and the
\* challenge it matched is still unverified
C29_Witness ==
  \E r \in Workers : \E i \in DOMAIN otps :
    /\ Done(r, "VerifyOTP") /\ resp[r].code = 401
    /\ otps[i].email = req[r].email /\ otps[i].otp = req[r].otp
    /\ ~otps[i].verified
    /\ now > otps[i].expires_at
    /\ tokens = {}

\* GetAccountStatus evaluated on given tables
StatusIn(userTable, subTables, userID) ==
  AccountStatus(userID,
                userTable[CHOOSE i \in DOMAIN userTable : userTable[i].id = userID].email,
                RowExists(subTables["personal"], userID),
                RowExists(subTables["business"], userID),
                RowExists(subTables["trade"], userID))
\* every row that account b owns in the table before the step is the same
\* row after it, and no row has become one of b's
RowsUntouched(before, after, b) ==
  /\ \A i \in DOMAIN before :
       before[i].user_id = b => i \in DOMAIN after /\ after[i] = before[i]
  /\ \A i \in DOMAIN after :
       after[i].user_id = b => i \in DOMAIN before /\ before[i].user_id = b
\* C30: a step of a request made for account A changes no sub-record and no
\* financing request owned by another account B, makes no row B's, and
\* leaves the status projection of B as it was; and the tables change only
\* in steps of requests.
C30_OtherAccountsUntouched ==
  [][/\ <<users, sub, financing>>' # <<users, sub, financing>>
          => \E r \in Workers : pc'[r] # pc[r]
     /\ \A r \in Workers :
          pc'[r] # pc[r] =>
            \A i \in DOMAIN users :
              LET b == users[i].id
              IN  b # req'[r].user_id =>
                    /\ \A k \in KindSet : RowsUntouched(sub[k], sub'[k], b)
                    /\ RowsUntouched(financing, financing', b)
                    /\ StatusIn(users', sub', b) = StatusIn(users, sub, b)
    ]_vars
\* the first account has replaced a sub-record while the second, complete
\* with its own data, has submitted a financing request
C30_Witness ==
  \E r, s \in Workers :
    /\ Done(r, "Upsert") /\ resp[r].code = 200 /\ req[r].user_id = 1
    /\ RowExists(pre[r].sub[req[r].kind], 1)
    /\ DataOf(sub, req[r].kind, 1) # DataOf(pre[r].sub, req[r].kind, 1)
    /\ Done(s, "Submit") /\ resp[s].code = 201 /\ req[s].user_id = 2
    /\ \A k \in KindSet : DataOf(sub, k, 2) = {FullB[k]}
    /\ Len(financing) = 1 /\ financing[1].user_id = 2

====
